---- MODULE Spec2Model ----
(***************************************************************************)
(* Client-side layer of the medical risk-assessment forms: the COVID-19    *)
(* form (static/js/covid.js), the lung-cancer form and the CV form (main   *)
(* bundle), the generic prediction form, the heart-disease form with       *)
(* blocking values, the dashboard's details rows, the debounce helper and  *)
(* the eye-image detector (static/js/eye.js).  Every page is a             *)
(* single-threaded event loop: an action below is one event handler run    *)
(* to completion, or the continuation of an async handler once its         *)
(* awaited response is there.                                              *)
(* Each page has its own specification; the pages share no state.          *)
(* A function that depends on its arguments alone is examined under a      *)
(* specification of its own: the initial state fixes the arguments and     *)
(* the only step is the call.                                              *)
(*                                                                         *)
(* Strings the code parses or searches are sequences of one-character      *)
(* strings, so that parseFloat, parseInt, includes and toLowerCase are     *)
(* computed and not assumed.  Numbers parsed by parseFloat are             *)
(* fixed-point, in hundredths.                                             *)
(***************************************************************************)
EXTENDS Integers, Sequences, FiniteSets, Bags, TLC

\* ------------------------------------------------------------------ bounds

\* The user edits the first EditableFields inputs of a form freely; the other
\* inputs only ever receive their typical valid value.
EditableFields == 2
\* Requests that may be outstanding at once before the model stops issuing more.
MaxInFlight == 2
\* The dashboard lists the predictions 0..MaxPredictionId.
MaxPredictionId == 4
\* The clock of the debounce model stops at MaxTime milliseconds.
MaxTime == 5
\* Longest wait given to debounce, in milliseconds.
MaxWait == 2
\* Calls of the debounced function and of func that a run records.
MaxLog == 5
\* Longest raw string given to a validation function examined on its own.
MaxRawLen == 3

\* ------------------------------------------------------------------- state

VARIABLES
    covid_value,        \* field name -> the input's raw value
    covid_class,        \* field name -> validation class of the input
    covid_progress,     \* width of the progress bar, in hundredths of a percent
    covid_btnDisabled,  \* submitBtn.disabled
    covid_btnText,      \* submitBtn.textContent
    covid_spinner,      \* loadingSpinner.style.display
    covid_results,      \* resultsSection: display and class
    covid_error,        \* the .error-message element, when present
    covid_inFlight      \* /covid/predict requests issued and not yet handled

VARIABLES
    lung_value,         \* input id -> raw value (age and the binary fields)
    lung_gender,        \* value of the checked gender radio, empty when none
    lung_progress,      \* width of .progress-fill, in hundredths of a percent
    lung_btnDisabled,   \* submitButton.disabled
    lung_btnText,       \* submitButton.textContent
    lung_originalText,  \* submitButton.dataset.originalText
    lung_loading,       \* loading.style.display
    lung_result,        \* result container, result text and description
    lung_alert,         \* the alert() dialog that is open, if any
    lung_inFlight       \* /lung-cancer/predict requests not yet handled

VARIABLES
    gen_value,          \* input id -> raw value (age and the binary fields)
    gen_gender,         \* value of the checked gender radio, empty when none
    gen_btnDisabled,    \* submitButton.disabled
    gen_btnText,        \* submitButton.textContent
    gen_loading,        \* loading.style.display
    gen_result,         \* result container, result text and description
    gen_alert,          \* the alert() dialog that is open, if any
    gen_inFlight        \* /predict requests not yet handled

VARIABLES
    cv_value,           \* form control name -> raw value
    cv_errorClass,      \* the controls that carry the class 'error'
    cv_loading,         \* loadingDiv.style.display
    cv_results,         \* resultsDiv and its sections
    cv_inFlight         \* the data of the /cv/predict requests not yet handled (a bag)

VARIABLES
    eye_currentFile,    \* this.currentFile
    eye_currentResults, \* this.currentResults
    eye_analyzeDisabled,\* analyzeBtn.disabled
    eye_spinner,        \* loadingSpinner.style.display
    eye_errorCard,      \* errorCard.style.display and errorMessage
    eye_resultsCard,    \* resultsCard.style.display and what it shows
    eye_preview,        \* imagePreview.style.display and the previewed file
    eye_uploadArea,     \* uploadArea.style.display
    eye_readers,        \* files whose FileReader has not fired onload yet
    eye_inFlight        \* the files of the /eye/predict requests not yet handled

VARIABLES
    heart_value,        \* id of a numeric input -> raw value
    heart_class,        \* id of a numeric input -> its validation classes
    heart_radio,        \* value of the checked radio of the radio groups, empty when none
    heart_progress,     \* width of the progress bar, in hundredths of a percent
    heart_btnText,      \* submitBtn.textContent
    heart_spinner,      \* loadingSpinner has the class 'show'
    heart_result,       \* resultContainer: what it displays
    heart_error,        \* the last .error-message inserted, while it is there
    heart_pending       \* the form data of the submitPrediction timers not yet fired

VARIABLES
    dash_display,       \* prediction id -> style.display of its details row
    dash_btnText,       \* prediction id -> text of its button
    currentOpenDetails  \* the variable of that name

VARIABLES
    deb_wait,           \* the wait given to debounce
    deb_now,            \* the clock, in milliseconds
    deb_timers,         \* the timers set and neither fired nor cleared
    deb_timeout,        \* the closure's variable timeout: a timer id, 0 while undefined
    deb_log             \* the calls of the debounced function and of func so far

VARIABLES
    call_args,          \* the arguments of the function call under examination
    call_done,          \* whether the call has returned
    call_ret            \* what the call returned or rendered

covidVars ==
    <<covid_value, covid_class, covid_progress, covid_btnDisabled, covid_btnText,
      covid_spinner, covid_results, covid_error, covid_inFlight>>

lungVars ==
    <<lung_value, lung_gender, lung_progress, lung_btnDisabled, lung_btnText,
      lung_originalText, lung_loading, lung_result, lung_alert, lung_inFlight>>

genVars ==
    <<gen_value, gen_gender, gen_btnDisabled, gen_btnText, gen_loading,
      gen_result, gen_alert, gen_inFlight>>

cvVars ==
    <<cv_value, cv_errorClass, cv_loading, cv_results, cv_inFlight>>

eyeVars ==
    <<eye_currentFile, eye_currentResults, eye_analyzeDisabled, eye_spinner,
      eye_errorCard, eye_resultsCard, eye_preview, eye_uploadArea, eye_readers,
      eye_inFlight>>

heartVars ==
    <<heart_value, heart_class, heart_radio, heart_progress, heart_btnText,
      heart_spinner, heart_result, heart_error, heart_pending>>

dashVars == <<dash_display, dash_btnText, currentOpenDetails>>

debVars == <<deb_wait, deb_now, deb_timers, deb_timeout, deb_log>>

callVars == <<call_args, call_done, call_ret>>

pageVars ==
    <<covidVars, lungVars, genVars, cvVars, eyeVars, heartVars, dashVars, debVars>>

vars == <<pageVars, callVars>>

notCovid ==
    <<lungVars, genVars, cvVars, eyeVars, heartVars, dashVars, debVars, callVars>>

notLung ==
    <<covidVars, genVars, cvVars, eyeVars, heartVars, dashVars, debVars, callVars>>

notGen ==
    <<covidVars, lungVars, cvVars, eyeVars, heartVars, dashVars, debVars, callVars>>

notCv ==
    <<covidVars, lungVars, genVars, eyeVars, heartVars, dashVars, debVars, callVars>>

notEye ==
    <<covidVars, lungVars, genVars, cvVars, heartVars, dashVars, debVars, callVars>>

notHeart ==
    <<covidVars, lungVars, genVars, cvVars, eyeVars, dashVars, debVars, callVars>>

notDash ==
    <<covidVars, lungVars, genVars, cvVars, eyeVars, heartVars, debVars, callVars>>

notDeb ==
    <<covidVars, lungVars, genVars, cvVars, eyeVars, heartVars, dashVars, callVars>>

\* ----------------------------------------------------------- JS primitives

Digits == {"0", "1", "2", "3", "4", "5", "6", "7", "8", "9"}

DigitVal(c) ==
    CASE c = "0" -> 0 [] c = "1" -> 1 [] c = "2" -> 2 [] c = "3" -> 3
      [] c = "4" -> 4 [] c = "5" -> 5 [] c = "6" -> 6 [] c = "7" -> 7
      [] c = "8" -> 8 [] c = "9" -> 9

\* Length of the run of decimal digits of s that starts at index i.
RECURSIVE DigitRun(_, _)
DigitRun(s, i) ==
    IF i <= Len(s) /\ s[i] \in Digits THEN 1 + DigitRun(s, i + 1) ELSE 0

\* Value of the n decimal digits of s that start at index i.
RECURSIVE DigitsValue(_, _, _)
DigitsValue(s, i, n) ==
    IF n = 0 THEN 0
    ELSE 10 * DigitsValue(s, i, n - 1) + DigitVal(s[i + n - 1])

NaN == [nan |-> TRUE, v |-> 0]

Number(n) == [nan |-> FALSE, v |-> n]

isNaN(x) == x.nan

\* The first two fractional digits of s from index i (n digits available), in
\* hundredths; further digits are below the model's resolution.
FracHundredths(s, i, n) ==
    IF n = 0 THEN 0
    ELSE IF n = 1 THEN 10 * DigitVal(s[i])
    ELSE 10 * DigitVal(s[i]) + DigitVal(s[i + 1])

\* parseFloat: optional sign, digits, optional "." and digits; the longest such
\* prefix is converted and whatever follows is ignored; no digit at all is NaN.
\* The result is in hundredths.
parseFloat(s) ==
    LET signed == Len(s) >= 1 /\ s[1] \in {"-", "+"}
        start  == IF signed THEN 2 ELSE 1
        n1     == DigitRun(s, start)
        dot    == start + n1 <= Len(s) /\ s[start + n1] = "."
        n2     == IF dot THEN DigitRun(s, start + n1 + 1) ELSE 0
        mag    == 100 * DigitsValue(s, start, n1)
                    + FracHundredths(s, start + n1 + 1, n2)
    IN  IF n1 = 0 /\ n2 = 0 THEN NaN
        ELSE Number(IF signed /\ s[1] = "-" THEN 0 - mag ELSE mag)

\* parseInt: optional sign and the longest run of digits; the rest is ignored.
\* The result is in units.
parseInt(s) ==
    LET signed == Len(s) >= 1 /\ s[1] \in {"-", "+"}
        start  == IF signed THEN 2 ELSE 1
        n1     == DigitRun(s, start)
        mag    == DigitsValue(s, start, n1)
    IN  IF n1 = 0 THEN NaN
        ELSE Number(IF signed /\ s[1] = "-" THEN 0 - mag ELSE mag)

\* ToNumber of a string (the coercion of age >= 1): the whole string must be a
\* numeric literal; the empty string is 0.  In hundredths.
ToNumber(s) ==
    LET signed == Len(s) >= 1 /\ s[1] \in {"-", "+"}
        start  == IF signed THEN 2 ELSE 1
        n1     == DigitRun(s, start)
        dot    == start + n1 <= Len(s) /\ s[start + n1] = "."
        n2     == IF dot THEN DigitRun(s, start + n1 + 1) ELSE 0
        used   == (start - 1) + n1 + (IF dot THEN 1 + n2 ELSE 0)
    IN  IF s = <<>> THEN Number(0)
        ELSE IF used = Len(s) THEN parseFloat(s) ELSE NaN

\* String.prototype.includes: t occurs in s as a contiguous substring.
Includes(s, t) ==
    \E i \in 0..(Len(s) - Len(t)) : \A j \in 1..Len(t) : s[i + j] = t[j]

LowerChar(c) ==
    CASE c = "A" -> "a" [] c = "B" -> "b" [] c = "C" -> "c" [] c = "D" -> "d"
      [] c = "E" -> "e" [] c = "F" -> "f" [] c = "G" -> "g" [] c = "H" -> "h"
      [] c = "I" -> "i" [] c = "J" -> "j" [] c = "K" -> "k" [] c = "L" -> "l"
      [] c = "M" -> "m" [] c = "N" -> "n" [] c = "O" -> "o" [] c = "P" -> "p"
      [] c = "Q" -> "q" [] c = "R" -> "r" [] c = "S" -> "s" [] c = "T" -> "t"
      [] c = "U" -> "u" [] c = "V" -> "v" [] c = "W" -> "w" [] c = "X" -> "x"
      [] c = "Y" -> "y" [] c = "Z" -> "z" [] OTHER -> c

toLowerCase(s) == [i \in 1..Len(s) |-> LowerChar(s[i])]

EmptyStr == <<>>

\* ------------------------------------------------ JS Number arithmetic (IEEE)

\* A natural number of any size is the sequence of its digits in base
\* LimbBase, least significant first, without leading zeros; zero is the empty
\* sequence.
LimbBits == 14

LimbBase == 2^LimbBits

BigNorm(a) ==
    IF \A i \in 1..Len(a) : a[i] = 0 THEN <<>>
    ELSE SubSeq(a, 1, CHOOSE i \in 1..Len(a) :
                        a[i] # 0 /\ \A j \in (i + 1)..Len(a) : a[j] = 0)

\* The digits of an integer n, 0 <= n < 2^31.
BigFromInt(n) ==
    BigNorm(<<n % LimbBase, (n \div LimbBase) % LimbBase,
              n \div (LimbBase * LimbBase)>>)

BigLimb(a, i) == IF i >= 1 /\ i <= Len(a) THEN a[i] ELSE 0

\* The digits of a sequence of column sums, from column i on, carry coming in.
RECURSIVE BigCarryFrom(_, _, _)
BigCarryFrom(cols, i, carry) ==
    IF i > Len(cols)
    THEN IF carry = 0 THEN <<>> ELSE <<carry>>
    ELSE <<(cols[i] + carry) % LimbBase>>
            \o BigCarryFrom(cols, i + 1, (cols[i] + carry) \div LimbBase)

BigAdd(a, b) ==
    BigNorm(BigCarryFrom([i \in 1..(IF Len(a) > Len(b) THEN Len(a) ELSE Len(b)) |->
                              BigLimb(a, i) + BigLimb(b, i)], 1, 0))

\* a - b - borrow from digit i on, for a >= b.
RECURSIVE BigSubFrom(_, _, _, _)
BigSubFrom(a, b, i, borrow) ==
    IF i > Len(a) THEN <<>>
    ELSE <<(a[i] - BigLimb(b, i) - borrow + LimbBase) % LimbBase>>
            \o BigSubFrom(a, b, i + 1,
                          IF a[i] - BigLimb(b, i) - borrow < 0 THEN 1 ELSE 0)

BigSub(a, b) == BigNorm(BigSubFrom(a, b, 1, 0))

BigLess(a, b) ==
    \/ Len(a) < Len(b)
    \/ /\ Len(a) = Len(b)
       /\ \E i \in 1..Len(a) :
            /\ a[i] < b[i]
            /\ \A j \in (i + 1)..Len(a) : a[j] = b[j]

\* Column k of the product of a and b: the sum of a[i] * b[k + 1 - i] from
\* i on.  a and b have at most 4 digits, so a column stays below 2^30.
RECURSIVE BigColumn(_, _, _, _)
BigColumn(a, b, k, i) ==
    IF i > Len(a) THEN 0
    ELSE a[i] * BigLimb(b, k + 1 - i) + BigColumn(a, b, k, i + 1)

BigMul(a, b) ==
    BigNorm(BigCarryFrom([k \in 1..(Len(a) + Len(b)) |-> BigColumn(a, b, k, 1)], 1, 0))

\* a * 2^k.
BigShl(a, k) ==
    LET kq == k \div LimbBits
        kr == k % LimbBits
    IN  BigNorm([j \in 1..(Len(a) + kq + 1) |->
                    ((BigLimb(a, j - kq) * 2^kr) % LimbBase)
                        + (BigLimb(a, j - kq - 1) \div 2^(LimbBits - kr))])

\* floor(a / 2^k).
BigShr(a, k) ==
    LET kq == k \div LimbBits
        kr == k % LimbBits
    IN  BigNorm([j \in 1..Len(a) |->
                    (BigLimb(a, j + kq) \div 2^kr)
                        + ((BigLimb(a, j + kq + 1) % 2^kr) * 2^(LimbBits - kr))])

\* Binary digit i of a, the least significant being digit 1.
BigBit(a, i) ==
    (BigLimb(a, (i - 1) \div LimbBits + 1) \div 2^((i - 1) % LimbBits)) % 2

\* Number of binary digits of a > 0.
BigBitLen(a) ==
    LimbBits * (Len(a) - 1)
        + (CHOOSE k \in 1..LimbBits : 2^(k - 1) <= a[Len(a)] /\ a[Len(a)] < 2^k)

\* Binary digits of the significand of a Number.
SignificandBits == 53

\* A positive finite Number is m * 2^e with a significand m of SignificandBits
\* binary digits.  F64Round rounds n * 2^e, n of more binary digits than the
\* significand, to the nearest Number, ties to the even significand; sticky
\* tells that the exact value is above n * 2^e by less than 2^e.
F64Round(n, sticky, e) ==
    LET d     == BigBitLen(n) - SignificandBits
        kept  == BigShr(n, d)
        rest  == sticky \/ \E i \in 1..(d - 1) : BigBit(n, i) = 1
        up    == BigBit(n, d) = 1 /\ (rest \/ BigBit(kept, 1) = 1)
        m1    == IF up THEN BigAdd(kept, <<1>>) ELSE kept
    IN  IF BigBitLen(m1) > SignificandBits
        THEN [m |-> BigShr(m1, 1), e |-> e + d + 1]
        ELSE [m |-> m1, e |-> e + d]

\* The Number that an integer n is, 0 < n < 2^31.
F64FromInt(n) ==
    LET b == BigFromInt(n)
    IN  [m |-> BigShl(b, SignificandBits - BigBitLen(b)),
         e |-> BigBitLen(b) - SignificandBits]

\* Digits of the fraction computed when two integers are divided.
FractionLimbs == 5

\* Long division by b, n more digits, r being the remainder so far: the
\* digits of the quotient, and the remainder left.
RECURSIVE BigFraction(_, _, _)
BigFraction(r, b, n) ==
    IF n = 0 THEN <<>>
    ELSE BigFraction((r * LimbBase) % b, b, n - 1) \o <<(r * LimbBase) \div b>>

RECURSIVE BigFractionRest(_, _, _)
BigFractionRest(r, b, n) ==
    IF n = 0 THEN r ELSE BigFractionRest((r * LimbBase) % b, b, n - 1)

\* a / b of integers 0 < a < 2^14, 0 < b < 2^14, correctly rounded.
F64DivInt(a, b) ==
    F64Round(BigNorm(BigFraction(a % b, b, FractionLimbs) \o <<a \div b>>),
             BigFractionRest(a % b, b, FractionLimbs) # 0,
             0 - LimbBits * FractionLimbs)

\* x * y of positive Numbers, correctly rounded.
F64Mul(x, y) == F64Round(BigMul(x.m, y.m), FALSE, x.e + y.e)

\* Whether the Number x / y, the exact quotient of the Numbers x and y rounded
\* to nearest, ties to even, is below the Number t (t not a power of two): the
\* exact quotient is below the midpoint of t and the Number just below t, or
\* is that midpoint while the significand of t is odd.  With the midpoint
\* (2 * t.m - 1) * 2^(t.e - 1), both sides are multiplied out to integers.
F64QuotientLess(x, y, t) ==
    LET mid == BigMul(BigSub(BigShl(t.m, 1), <<1>>), y.m)
        s   == x.e - (t.e - 1 + y.e)
        lhs == IF s >= 0 THEN BigShl(x.m, s) ELSE x.m
        rhs == IF s >= 0 THEN mid ELSE BigShl(mid, 0 - s)
    IN  BigLess(lhs, rhs) \/ (lhs = rhs /\ BigBit(t.m, 1) = 1)

\* =========================================================== COVID-19 form

covid_requiredFields ==
    <<"age", "leukocytes", "neutrophilsP", "lymphocytesP", "monocytesP",
      "eosinophilsP", "basophilsP", "neutrophils", "lymphocytes",
      "monocytes", "eosinophils", "basophils", "redbloodcells", "mcv",
      "mch", "mchc", "rdwP", "hemoglobin", "hematocritP", "platelets", "mpv">>

CovidFields == {covid_requiredFields[i] : i \in 1..Len(covid_requiredFields)}

\* min, max and the normal range of every field, in hundredths.
validationRanges ==
    [age |-> [min |-> 0, max |-> 12000, hasNormal |-> FALSE, normalMin |-> 0, normalMax |-> 0],
     leukocytes |-> [min |-> 350, max |-> 1500, hasNormal |-> TRUE, normalMin |-> 400, normalMax |-> 1100],
     neutrophilsP |-> [min |-> 3500, max |-> 8500, hasNormal |-> TRUE, normalMin |-> 4500, normalMax |-> 7000],
     lymphocytesP |-> [min |-> 1000, max |-> 6000, hasNormal |-> TRUE, normalMin |-> 2000, normalMax |-> 5000],
     monocytesP |-> [min |-> 0, max |-> 1500, hasNormal |-> TRUE, normalMin |-> 200, normalMax |-> 1000],
     eosinophilsP |-> [min |-> 0, max |-> 1000, hasNormal |-> TRUE, normalMin |-> 100, normalMax |-> 400],
     basophilsP |-> [min |-> 0, max |-> 300, hasNormal |-> TRUE, normalMin |-> 50, normalMax |-> 100],
     neutrophils |-> [min |-> 100, max |-> 1200, hasNormal |-> TRUE, normalMin |-> 180, normalMax |-> 770],
     lymphocytes |-> [min |-> 50, max |-> 800, hasNormal |-> TRUE, normalMin |-> 100, normalMax |-> 400],
     monocytes |-> [min |-> 10, max |-> 200, hasNormal |-> TRUE, normalMin |-> 20, normalMax |-> 80],
     eosinophils |-> [min |-> 0, max |-> 100, hasNormal |-> TRUE, normalMin |-> 0, normalMax |-> 40],
     basophils |-> [min |-> 0, max |-> 30, hasNormal |-> TRUE, normalMin |-> 0, normalMax |-> 10],
     redbloodcells |-> [min |-> 300, max |-> 700, hasNormal |-> TRUE, normalMin |-> 420, normalMax |-> 540],
     mcv |-> [min |-> 7000, max |-> 11000, hasNormal |-> TRUE, normalMin |-> 8000, normalMax |-> 10000],
     mch |-> [min |-> 2000, max |-> 4000, hasNormal |-> TRUE, normalMin |-> 2700, normalMax |-> 3300],
     mchc |-> [min |-> 2800, max |-> 3800, hasNormal |-> TRUE, normalMin |-> 3200, normalMax |-> 3600],
     rdwP |-> [min |-> 1000, max |-> 2000, hasNormal |-> TRUE, normalMin |-> 1150, normalMax |-> 1450],
     hemoglobin |-> [min |-> 600, max |-> 2000, hasNormal |-> TRUE, normalMin |-> 1200, normalMax |-> 1700],
     hematocritP |-> [min |-> 2500, max |-> 6000, hasNormal |-> TRUE, normalMin |-> 3600, normalMax |-> 5000],
     platelets |-> [min |-> 5000, max |-> 80000, hasNormal |-> TRUE, normalMin |-> 15000, normalMax |-> 45000],
     mpv |-> [min |-> 500, max |-> 1500, hasNormal |-> TRUE, normalMin |-> 700, normalMax |-> 1200]]

demoData ==
    [age |-> <<"4", "5">>,
     leukocytes |-> <<"8", ".", "2">>,
     neutrophilsP |-> <<"6", "5">>,
     lymphocytesP |-> <<"2", "5">>,
     monocytesP |-> <<"7">>,
     eosinophilsP |-> <<"2">>,
     basophilsP |-> <<"1">>,
     neutrophils |-> <<"5", ".", "3", "3">>,
     lymphocytes |-> <<"2", ".", "0", "5">>,
     monocytes |-> <<"0", ".", "5", "7">>,
     eosinophils |-> <<"0", ".", "1", "6">>,
     basophils |-> <<"0", ".", "0", "8">>,
     redbloodcells |-> <<"4", ".", "5">>,
     mcv |-> <<"8", "8">>,
     mch |-> <<"3", "0">>,
     mchc |-> <<"3", "4">>,
     rdwP |-> <<"1", "3">>,
     hemoglobin |-> <<"1", "4">>,
     hematocritP |-> <<"4", "2">>,
     platelets |-> <<"2", "5", "0">>,
     mpv |-> <<"9">>]

\* Raw values the user types into an editable COVID input: empty, in range,
\* out of range, not a number.
CovidSamples ==
    {EmptyStr, <<"8", ".", "2">>, <<"1", "5", "0">>, <<"a">>}

MsgNetworkError ==
    <<"N", "e", "t", "w", "o", "r", "k", " ", "e", "r", "r", "o", "r", ".", " ", "P", "l", "e", "a", "s", "e", " ", "c", "h", "e", "c", "k", " ", "y", "o", "u", "r", " ", "c", "o", "n", "n", "e", "c", "t", "i", "o", "n", " ", "a", "n", "d", " ", "t", "r", "y", " ", "a", "g", "a", "i", "n", ".">>

MsgPredictionError ==
    <<"A", "n", " ", "e", "r", "r", "o", "r", " ", "o", "c", "c", "u", "r", "r", "e", "d", " ", "d", "u", "r", "i", "n", "g", " ", "p", "r", "e", "d", "i", "c", "t", "i", "o", "n">>

TxtModelNotLoaded ==
    <<"M", "o", "d", "e", "l", " ", "n", "o", "t", " ", "l", "o", "a", "d", "e", "d">>

TxtCovidPositive ==
    <<"C", "O", "V", "I", "D", "-", "1", "9", " ", "P", "o", "s", "i", "t", "i", "v", "e">>

TxtCovidNegative ==
    <<"C", "O", "V", "I", "D", "-", "1", "9", " ", "N", "e", "g", "a", "t", "i", "v", "e">>

\* What the backend may answer to /covid/predict: a 2xx with a result, a 2xx
\* whose body has no prediction, a non-2xx with or without an error string, a
\* body that is not JSON, and a transport failure.
CovidResponses ==
    {[kind |-> "ok", prediction |-> TxtCovidPositive, error |-> EmptyStr],
     [kind |-> "ok", prediction |-> TxtCovidNegative, error |-> EmptyStr],
     [kind |-> "ok_no_prediction", prediction |-> EmptyStr, error |-> EmptyStr],
     [kind |-> "http_error", prediction |-> EmptyStr, error |-> TxtModelNotLoaded],
     [kind |-> "http_error", prediction |-> EmptyStr, error |-> EmptyStr],
     [kind |-> "bad_body", prediction |-> EmptyStr, error |-> EmptyStr],
     [kind |-> "transport", prediction |-> EmptyStr, error |-> EmptyStr]}

\* validateField: the class the input gets and the value returned.
covid_validateField(fieldName, raw) ==
    LET value      == parseFloat(raw)
        validation == validationRanges[fieldName]
    IN  IF raw = EmptyStr THEN [ok |-> FALSE, cls |-> ""]
        ELSE IF isNaN(value) THEN [ok |-> FALSE, cls |-> "invalid"]
        ELSE IF value.v < validation.min \/ value.v > validation.max
             THEN [ok |-> FALSE, cls |-> "invalid"]
        ELSE IF validation.hasNormal
             THEN IF value.v < validation.normalMin \/ value.v > validation.normalMax
                  THEN [ok |-> TRUE, cls |-> "abnormal"]
                  ELSE [ok |-> TRUE, cls |-> "valid"]
        ELSE [ok |-> TRUE, cls |-> "valid"]

\* The test shared by updateProgress and updateSubmitButton.
covid_filled(value, class, f) == value[f] # EmptyStr /\ class[f] # "invalid"

\* An updateProgress that counts the fields still to fill: what C22 rules out.
C22_Mutant_updateProgress(value, class) ==
    (Cardinality({f \in CovidFields : ~covid_filled(value, class, f)}) * 10000)
        \div Len(covid_requiredFields)

\* updateProgress: the width given to the progress bar.
covid_updateProgress(value, class) ==
    (Cardinality({f \in CovidFields : covid_filled(value, class, f)}) * 10000)
        \div Len(covid_requiredFields)

\* updateSubmitButton: the value given to submitBtn.disabled.
covid_updateSubmitButton(value, class) ==
    ~(\A f \in CovidFields : covid_filled(value, class, f))

\* validateForm: the errors pushed, in the order of covid_requiredFields.
RECURSIVE covid_errorsFrom(_, _)
covid_errorsFrom(value, i) ==
    IF i > Len(covid_requiredFields) THEN <<>>
    ELSE LET f == covid_requiredFields[i]
             e == IF value[f] = EmptyStr
                  THEN <<[field |-> f, problem |-> "is required"]>>
                  ELSE IF ~covid_validateField(f, value[f]).ok
                  THEN <<[field |-> f, problem |-> "has an invalid value"]>>
                  ELSE <<>>
         IN  e \o covid_errorsFrom(value, i + 1)

\* A validateForm that stops at the first offending field: what C2 rules out.
C2_Mutant_validateForm(value) ==
    IF covid_errorsFrom(value, 1) = <<>> THEN <<>>
    ELSE <<covid_errorsFrom(value, 1)[1]>>

covid_validateForm(value) == covid_errorsFrom(value, 1)

\* The classes after validateForm: validateField runs on the non-empty inputs.
covid_classesAfterValidate(value, class) ==
    [f \in CovidFields |->
        IF value[f] = EmptyStr THEN class[f]
        ELSE covid_validateField(f, value[f]).cls]

NoError == [shown |-> FALSE, kind |-> "", errors |-> <<>>, text |-> EmptyStr]

covid_showError(kind, errors, text) ==
    [shown |-> TRUE, kind |-> kind, errors |-> errors, text |-> text]

\* A finally block that leaves the submit button disabled: what C7 rules out.
C7_Mutant_finallyDisabled == TRUE

\* The finally block of submitPrediction: the value given to submitBtn.disabled.
covid_finallyDisabled == FALSE

\* The finally block of submitPrediction: the display given to loadingSpinner.
covid_finallySpinner == "none"

covid_Init ==
    /\ covid_value = [f \in CovidFields |-> EmptyStr]
    /\ covid_class = [f \in CovidFields |-> ""]
    /\ covid_progress = covid_updateProgress(covid_value, covid_class)
    /\ covid_btnDisabled = covid_updateSubmitButton(covid_value, covid_class)
    /\ covid_btnText = "Get COVID-19 Assessment"
    /\ covid_spinner = "none"
    /\ covid_results = [display |-> "none", cls |-> ""]
    /\ covid_error = NoError
    /\ covid_inFlight = 0

\* 'input' on a field: validateField, updateProgress, updateSubmitButton.
covid_Input(f, raw) ==
    LET value == [covid_value EXCEPT ![f] = raw]
        class == [covid_class EXCEPT ![f] = covid_validateField(f, raw).cls]
    IN  /\ covid_value' = value
        /\ covid_class' = class
        /\ covid_progress' = covid_updateProgress(value, class)
        /\ covid_btnDisabled' = covid_updateSubmitButton(value, class)
        /\ UNCHANGED <<covid_btnText, covid_spinner, covid_results, covid_error,
                       covid_inFlight>>

covid_InputEvent ==
    \E i \in 1..EditableFields : \E raw \in CovidSamples :
        /\ raw # covid_value[covid_requiredFields[i]]
        /\ covid_Input(covid_requiredFields[i], raw)
        /\ UNCHANGED notCovid

\* The "Fill Demo Data" button.
covid_fillDemoData ==
    LET value == demoData
        class == [f \in CovidFields |-> covid_validateField(f, value[f]).cls]
    IN  /\ covid_value' = value
        /\ covid_class' = class
        /\ covid_progress' = covid_updateProgress(value, class)
        /\ covid_btnDisabled' = covid_updateSubmitButton(value, class)
        /\ UNCHANGED <<covid_btnText, covid_spinner, covid_results, covid_error,
                       covid_inFlight>>
        /\ UNCHANGED notCovid

\* submitPrediction up to its first await: loading state, then the request.
covid_submitPrediction ==
    /\ covid_btnDisabled' = TRUE
    /\ covid_btnText' = "Analyzing..."
    /\ covid_spinner' = "block"
    /\ covid_results' = [covid_results EXCEPT !.display = "none"]
    /\ covid_inFlight' = covid_inFlight + 1
    /\ UNCHANGED <<covid_error>>

\* 'submit' on the form; the browser delivers it only while the submit button
\* is enabled.  validateForm, then submitPrediction when it returns true.
covid_Submit ==
    LET errors == covid_validateForm(covid_value)
    IN  /\ ~covid_btnDisabled
        /\ (errors = <<>>) => (covid_inFlight < MaxInFlight)
        /\ covid_class' = covid_classesAfterValidate(covid_value, covid_class)
        /\ IF errors = <<>>
           THEN covid_submitPrediction
           ELSE /\ covid_error' = covid_showError("validation", errors, EmptyStr)
                /\ UNCHANGED <<covid_btnDisabled, covid_btnText, covid_spinner,
                               covid_results, covid_inFlight>>
        /\ UNCHANGED <<covid_value, covid_progress>>
        /\ UNCHANGED notCovid

\* displayResults: the class of the results section.
covid_displayResults(result) ==
    [display |-> "block",
     cls |-> IF Includes(result.prediction, <<"P", "o", "s", "i", "t", "i", "v", "e">>)
             THEN "covid-positive" ELSE "covid-negative"]

\* The rest of submitPrediction, once the request has resolved: try, catch and
\* finally.
covid_Response ==
    \E r \in CovidResponses :
        /\ covid_inFlight > 0
        /\ covid_inFlight' = covid_inFlight - 1
        /\ CASE r.kind = "ok" ->
                    /\ covid_results' = covid_displayResults(r)
                    /\ UNCHANGED covid_error
             [] r.kind = "http_error" ->
                    /\ covid_error' = covid_showError("server", <<>>,
                            IF r.error # EmptyStr THEN r.error ELSE MsgPredictionError)
                    /\ UNCHANGED covid_results
             [] OTHER ->
                    /\ covid_error' = covid_showError("network", <<>>, MsgNetworkError)
                    /\ UNCHANGED covid_results
        /\ covid_btnDisabled' = covid_finallyDisabled
        /\ covid_btnText' = "Get COVID-19 Assessment"
        /\ covid_spinner' = covid_finallySpinner
        /\ UNCHANGED <<covid_value, covid_class, covid_progress>>
        /\ UNCHANGED notCovid

\* The timer of showError removes the message ten seconds after it was shown.
covid_ErrorTimeout ==
    /\ covid_error.shown
    /\ covid_error' = NoError
    /\ UNCHANGED <<covid_value, covid_class, covid_progress, covid_btnDisabled,
                   covid_btnText, covid_spinner, covid_results, covid_inFlight>>
    /\ UNCHANGED notCovid

covid_Next ==
    \/ covid_InputEvent
    \/ covid_fillDemoData
    \/ covid_Submit
    \/ covid_Response
    \/ covid_ErrorTimeout

\* ============================================= shared helpers (main bundle)

MsgTryAgain ==
    <<"P", "l", "e", "a", "s", "e", " ", "t", "r", "y", " ", "a", "g", "a", "i", "n", " ", "o", "r", " ", "c", "h", "e", "c", "k", " ", "y", "o", "u", "r", " ", "c", "o", "n", "n", "e", "c", "t", "i", "o", "n", ".">>

MsgUnableToConnect ==
    <<"U", "n", "a", "b", "l", "e", " ", "t", "o", " ", "c", "o", "n", "n", "e", "c", "t", " ", "t", "o", " ", "s", "e", "r", "v", "e", "r", ".", " ", "P", "l", "e", "a", "s", "e", " ", "c", "h", "e", "c", "k", " ", "y", "o", "u", "r", " ", "i", "n", "t", "e", "r", "n", "e", "t", " ", "c", "o", "n", "n", "e", "c", "t", "i", "o", "n", ".">>

MsgInvalidResponse ==
    <<"S", "e", "r", "v", "e", "r", " ", "r", "e", "t", "u", "r", "n", "e", "d", " ", "i", "n", "v", "a", "l", "i", "d", " ", "r", "e", "s", "p", "o", "n", "s", "e", ".", " ", "P", "l", "e", "a", "s", "e", " ", "t", "r", "y", " ", "a", "g", "a", "i", "n", ".">>

MsgServiceUnavailable ==
    <<"P", "r", "e", "d", "i", "c", "t", "i", "o", "n", " ", "s", "e", "r", "v", "i", "c", "e", " ", "i", "s", " ", "c", "u", "r", "r", "e", "n", "t", "l", "y", " ", "u", "n", "a", "v", "a", "i", "l", "a", "b", "l", "e", ".", " ", "P", "l", "e", "a", "s", "e", " ", "t", "r", "y", " ", "a", "g", "a", "i", "n", " ", "l", "a", "t", "e", "r", ".">>

\* Messages of the errors the browser and the backend raise.
TxtFailedToFetch == <<"F", "a", "i", "l", "e", "d", " ", "t", "o", " ", "f", "e", "t", "c", "h">>

TxtLoadFailed == <<"L", "o", "a", "d", " ", "f", "a", "i", "l", "e", "d">>

TxtUnexpectedToken == <<"U", "n", "e", "x", "p", "e", "c", "t", "e", "d", " ", "t", "o", "k", "e", "n", " ", "<", " ", "i", "n", " ", "J", "S", "O", "N", " ", "a", "t", " ", "p", "o", "s", "i", "t", "i", "o", "n", " ", "0">>

TxtInvalidInput == <<"I", "n", "v", "a", "l", "i", "d", " ", "i", "n", "p", "u", "t", " ", "d", "a", "t", "a">>

TxtPredHighRisk == <<"H", "i", "g", "h", " ", "R", "i", "s", "k">>

TxtPredLowRisk == <<"L", "o", "w", " ", "R", "i", "s", "k">>

NoAlert == [open |-> FALSE, field |-> "", problem |-> ""]

Alert(fieldName, problem) == [open |-> TRUE, field |-> fieldName, problem |-> problem]

\* A validateNumericInput without the upper bound: what C9 rules out.
C9_Mutant_validateNumericInput(raw, min, max, fieldName) ==
    LET value == parseFloat(raw)
    IN  IF isNaN(value) THEN <<Alert(fieldName, "Please enter a valid number")>>
        ELSE IF value.v < 100 * min
             THEN <<Alert(fieldName, "must be between")>>
        ELSE <<>>

\* validateNumericInput: the alerts it raises (none when it returns true).
\* min and max are in units.
validateNumericInput(raw, min, max, fieldName) ==
    LET value == parseFloat(raw)
    IN  IF isNaN(value) THEN <<Alert(fieldName, "Please enter a valid number")>>
        ELSE IF value.v < 100 * min \/ value.v > 100 * max
             THEN <<Alert(fieldName, "must be between")>>
        ELSE <<>>

\* validateBinaryInput: the alerts it raises (none when it returns true).
validateBinaryInput(raw, fieldName) ==
    LET value == parseInt(raw)
    IN  IF isNaN(value) \/ (value.v # 0 /\ value.v # 1)
        THEN <<Alert(fieldName, "Please enter 0 or 1")>>
        ELSE <<>>

\* validateRadioSelection: the alerts it raises (none when it returns true).
validateRadioSelection(selected, fieldName) ==
    IF selected = EmptyStr THEN <<Alert(fieldName, "Please select")>> ELSE <<>>

\* showError of the main bundle: the message put into resultDescription.
showError_friendlyMessage(errorMessage) ==
    IF errorMessage = EmptyStr THEN MsgTryAgain
    ELSE IF Includes(errorMessage, <<"f", "e", "t", "c", "h">>) THEN MsgUnableToConnect
    ELSE IF Includes(errorMessage, <<"J", "S", "O", "N">>) THEN MsgInvalidResponse
    ELSE IF Includes(toLowerCase(errorMessage), <<"m", "o", "d", "e", "l">>) THEN MsgServiceUnavailable
    ELSE errorMessage

\* The risk tier read from the prediction text by showResult,
\* showLungCancerResult and addRiskIndicator.
isHighRisk(prediction) ==
    \/ Includes(toLowerCase(prediction), <<"h", "i", "g", "h", " ", "r", "i", "s", "k">>)
    \/ Includes(toLowerCase(prediction), <<"p", "o", "s", "i", "t", "i", "v", "e">>)

\* showResult of the main bundle, with its default classes: the class given to
\* the result container.
showResult(result) ==
    [display |-> "block",
     cls |-> IF isHighRisk(result.prediction) THEN "result-positive" ELSE "result-negative",
     text |-> result.prediction]

\* hideLoading: the value given to submitButton.disabled.
hideLoading_disabled == FALSE

\* hideLoading: the display given to the loading element.
hideLoading_display == "none"

\* makeAPICall: what the caller gets from a response: the parsed result, or the
\* message of the Error that is thrown.
makeAPICall(r) ==
    CASE r.kind \in {"ok", "ok_no_prediction"} -> [threw |-> FALSE, message |-> EmptyStr]
      [] r.kind = "http_error" ->
            [threw |-> TRUE,
             message |-> IF r.error # EmptyStr THEN r.error ELSE <<"H", "T", "T", "P", " ", "5", "0", "0", ":", " ", "I", "n", "t", "e", "r", "n", "a", "l", " ", "S", "e", "r", "v", "e", "r", " ", "E", "r", "r", "o", "r">>]
      [] OTHER -> [threw |-> TRUE, message |-> r.error]

\* ========================================================= lung-cancer form

binaryFields ==
    <<"smoking", "yellow_fingers", "anxiety", "peer_pressure",
      "chronic_disease", "fatigue", "allergy", "wheezing",
      "alcohol_consuming", "coughing", "shortness_of_breath",
      "swallowing_difficulty", "chest_pain">>

lung_requiredFields == <<"age">> \o binaryFields

LungInputs == {lung_requiredFields[i] : i \in 1..Len(lung_requiredFields)}

\* Raw values the user types into an editable input of the lung-cancer and
\* generic forms: empty, a valid age, an age above 120, 0, 1, and 1 with a
\* suffix.
LungSamples ==
    {EmptyStr, <<"4", "5">>, <<"1", "5", "0">>, <<"0">>, <<"1">>, <<"1", "a">>}

GenderSamples == {<<"0">>, <<"1">>}

\* What the backend and the transport may answer to a prediction request of the
\* lung-cancer and generic forms.
LungResponses ==
    {[kind |-> "ok", prediction |-> TxtPredHighRisk, prob |-> <<73, 27>>,
      score |-> <<73>>, error |-> EmptyStr],
     [kind |-> "ok", prediction |-> TxtPredLowRisk, prob |-> <<12, 88>>,
      score |-> <<>>, error |-> EmptyStr],
     [kind |-> "ok", prediction |-> TxtPredLowRisk, prob |-> <<>>,
      score |-> <<>>, error |-> EmptyStr],
     [kind |-> "ok_no_prediction", prediction |-> EmptyStr, prob |-> <<>>,
      score |-> <<>>, error |-> EmptyStr],
     [kind |-> "http_error", prediction |-> EmptyStr, prob |-> <<>>,
      score |-> <<>>, error |-> TxtModelNotLoaded],
     [kind |-> "http_error", prediction |-> EmptyStr, prob |-> <<>>,
      score |-> <<>>, error |-> TxtInvalidInput],
     [kind |-> "http_error", prediction |-> EmptyStr, prob |-> <<>>,
      score |-> <<>>, error |-> EmptyStr],
     [kind |-> "bad_body", prediction |-> EmptyStr, prob |-> <<>>,
      score |-> <<>>, error |-> TxtUnexpectedToken],
     [kind |-> "transport", prediction |-> EmptyStr, prob |-> <<>>,
      score |-> <<>>, error |-> TxtFailedToFetch],
     [kind |-> "transport", prediction |-> EmptyStr, prob |-> <<>>,
      score |-> <<>>, error |-> TxtLoadFailed]}

\* The binary fields from index i on: the alert of the first one that
\* validateBinaryInput rejects.
RECURSIVE lung_firstBinaryAlert(_, _)
lung_firstBinaryAlert(value, i) ==
    IF i > Len(binaryFields) THEN <<>>
    ELSE LET a == validateBinaryInput(value[binaryFields[i]], binaryFields[i])
         IN  IF a # <<>> THEN a ELSE lung_firstBinaryAlert(value, i + 1)

\* A validateForm that checks the binary fields before the age: what the
\* order stated in C10 rules out.
C10_Mutant_validateForm(value, gender) ==
    LET a == validateNumericInput(value["age"], 1, 120, "Age")
        b == lung_firstBinaryAlert(value, 1)
    IN  IF b # <<>> THEN b
        ELSE IF a # <<>> THEN a
        ELSE validateRadioSelection(gender, "gender")

\* validateForm: the alerts raised before it returns (none when it returns
\* true).
lung_validateForm(value, gender) ==
    LET a == validateNumericInput(value["age"], 1, 120, "Age")
        b == lung_firstBinaryAlert(value, 1)
    IN  IF a # <<>> THEN a
        ELSE IF b # <<>> THEN b
        ELSE validateRadioSelection(gender, "gender")

\* updateProgress: the number of fields counted as filled.
lung_filledFields(value, gender) ==
    LET age == ToNumber(value["age"])
    IN  (IF value["age"] # EmptyStr /\ ~isNaN(age) /\ age.v >= 100 /\ age.v <= 12000
         THEN 1 ELSE 0)
        + (IF gender # EmptyStr THEN 1 ELSE 0)
        + Cardinality({i \in 1..Len(binaryFields) :
                          value[binaryFields[i]] \in {<<"0">>, <<"1">>}})

lung_totalFields == Len(lung_requiredFields) + 1

\* updateProgress: the width given to .progress-fill.
lung_percentage(value, gender) ==
    (lung_filledFields(value, gender) * 10000) \div lung_totalFields

\* updateProgress: the value given to submitButton.disabled.
lung_updateProgress_disabled(value, gender) ==
    lung_filledFields(value, gender) < lung_totalFields

NoDescription == [kind |-> "", text |-> EmptyStr, prob |-> <<>>, score |-> <<>>]

\* An addRiskIndicator that always appends the green indicator: what C15 rules
\* out.
C15_Mutant_addRiskIndicator(indicators, result) ==
    Append(IF indicators # <<>> THEN Tail(indicators) ELSE <<>>, "risk-low")

\* addRiskIndicator: the .risk-indicator children of resultText after it; the
\* first one found is removed and a new one is appended.
addRiskIndicator(indicators, result) ==
    Append(IF indicators # <<>> THEN Tail(indicators) ELSE <<>>,
           IF isHighRisk(result.prediction) THEN "risk-high" ELSE "risk-low")

\* showLungCancerResult on a result that has a prediction.  Assigning
\* resultText.textContent replaces every child of resultText, so
\* addRiskIndicator finds no indicator left.
showLungCancerResult(result) ==
    [display |-> "block",
     cls |-> IF isHighRisk(result.prediction) THEN "result-positive" ELSE "result-negative",
     text |-> result.prediction,
     description |-> [kind |-> IF isHighRisk(result.prediction) THEN "high" ELSE "low",
                      text |-> EmptyStr, prob |-> result.prob, score |-> result.score],
     indicators |-> addRiskIndicator(<<>>, result)]

\* showError of the main bundle on the lung-cancer result elements.
lung_showError(errorMessage) ==
    [display |-> "block",
     cls |-> "result-positive",
     text |-> <<"E", "r", "r", "o", "r", " ", "O", "c", "c", "u", "r", "r", "e", "d">>,
     description |-> [kind |-> "error", text |-> showError_friendlyMessage(errorMessage),
                      prob |-> <<>>, score |-> <<>>],
     indicators |-> <<>>]

\* The label the page gives the submit button.
lung_InitialLabel == "(label of .predict-btn)"

lung_Init ==
    /\ lung_value = [f \in LungInputs |-> EmptyStr]
    /\ lung_gender = EmptyStr
    /\ lung_progress = lung_percentage(lung_value, lung_gender)
    /\ lung_btnDisabled = lung_updateProgress_disabled(lung_value, lung_gender)
    /\ lung_btnText = lung_InitialLabel
    /\ lung_originalText = ""
    /\ lung_loading = "none"
    /\ lung_result = [display |-> "none", cls |-> "", text |-> EmptyStr,
                      description |-> NoDescription, indicators |-> <<>>]
    /\ lung_alert = NoAlert
    /\ lung_inFlight = 0

\* 'input' on a field: updateProgress.
lung_Input(f, raw) ==
    LET value == [lung_value EXCEPT ![f] = raw]
    IN  /\ ~lung_alert.open
        /\ lung_value' = value
        /\ lung_progress' = lung_percentage(value, lung_gender)
        /\ lung_btnDisabled' = lung_updateProgress_disabled(value, lung_gender)
        /\ UNCHANGED <<lung_gender, lung_btnText, lung_originalText, lung_loading,
                       lung_result, lung_alert, lung_inFlight>>
        /\ UNCHANGED notLung

lung_InputEvent ==
    \E i \in 1..EditableFields : \E raw \in LungSamples :
        /\ raw # lung_value[lung_requiredFields[i]]
        /\ lung_Input(lung_requiredFields[i], raw)

\* The user fills the next empty input after the editable ones with 1.
lung_FillNext ==
    \E i \in (EditableFields + 1)..Len(lung_requiredFields) :
        /\ lung_value[lung_requiredFields[i]] = EmptyStr
        /\ \A j \in (EditableFields + 1)..(i - 1) :
                lung_value[lung_requiredFields[j]] # EmptyStr
        /\ lung_Input(lung_requiredFields[i], <<"1">>)

\* 'change' on a gender radio: updateProgress.
lung_GenderChange ==
    \E g \in GenderSamples :
        /\ ~lung_alert.open
        /\ g # lung_gender
        /\ lung_gender' = g
        /\ lung_progress' = lung_percentage(lung_value, g)
        /\ lung_btnDisabled' = lung_updateProgress_disabled(lung_value, g)
        /\ UNCHANGED <<lung_value, lung_btnText, lung_originalText, lung_loading,
                       lung_result, lung_alert, lung_inFlight>>
        /\ UNCHANGED notLung

\* 'submit' on lungCancerForm, delivered only while the submit button is
\* enabled: validateForm, then showLoading and makeAPICall up to its await.
lung_Submit ==
    LET alerts == lung_validateForm(lung_value, lung_gender)
    IN  /\ ~lung_alert.open
        /\ ~lung_btnDisabled
        /\ (alerts = <<>>) => (lung_inFlight < MaxInFlight)
        /\ IF alerts # <<>>
           THEN /\ lung_alert' = alerts[1]
                /\ UNCHANGED <<lung_btnDisabled, lung_btnText, lung_originalText,
                               lung_loading, lung_result, lung_inFlight>>
           ELSE /\ lung_loading' = "block"
                /\ lung_result' = [lung_result EXCEPT !.display = "none"]
                /\ lung_btnDisabled' = TRUE
                /\ lung_originalText' = lung_btnText
                /\ lung_btnText' = "Analyzing..."
                /\ lung_inFlight' = lung_inFlight + 1
                /\ UNCHANGED lung_alert
        /\ UNCHANGED <<lung_value, lung_gender, lung_progress>>
        /\ UNCHANGED notLung

\* The user closes the alert() dialog; nothing else runs while it is open.
lung_AlertDismiss ==
    /\ lung_alert.open
    /\ lung_alert' = NoAlert
    /\ UNCHANGED <<lung_value, lung_gender, lung_progress, lung_btnDisabled,
                   lung_btnText, lung_originalText, lung_loading, lung_result,
                   lung_inFlight>>
    /\ UNCHANGED notLung

\* The rest of the submit handler once makeAPICall has settled: hideLoading,
\* then showLungCancerResult, or the catch block with hideLoading and showError.
lung_Response ==
    \E r \in LungResponses :
        LET call == makeAPICall(r)
        IN  /\ ~lung_alert.open
            /\ lung_inFlight > 0
            /\ lung_inFlight' = lung_inFlight - 1
            /\ lung_loading' = hideLoading_display
            /\ lung_btnDisabled' = hideLoading_disabled
            /\ lung_btnText' = IF lung_originalText # "" THEN lung_originalText
                               ELSE lung_btnText
            /\ lung_result' =
                 IF call.threw THEN lung_showError(call.message)
                 ELSE IF r.kind = "ok" THEN showLungCancerResult(r)
                 ELSE lung_showError(<<"C", "a", "n", "n", "o", "t", " ", "r", "e", "a", "d", " ", "p", "r", "o", "p", "e", "r", "t", "i", "e", "s", " ", "o", "f", " ", "u", "n", "d", "e", "f", "i", "n", "e", "d", " ", "(", "r", "e", "a", "d", "i", "n", "g", " ", "'", "t", "o", "L", "o", "w", "e", "r", "C", "a", "s", "e", "'", ")">>)
            /\ UNCHANGED <<lung_value, lung_gender, lung_progress,
                           lung_originalText, lung_alert>>
            /\ UNCHANGED notLung

lung_Next ==
    \/ lung_InputEvent
    \/ lung_FillNext
    \/ lung_GenderChange
    \/ lung_Submit
    \/ lung_AlertDismiss
    \/ lung_Response

\* ================================================== generic prediction form

gen_requiredFields ==
    <<"age", "smoking", "yellow_fingers", "anxiety", "peer_pressure",
      "chronic_disease", "fatigue", "allergy", "wheezing",
      "alcohol_consuming", "coughing", "shortness_of_breath",
      "swallowing_difficulty", "chest_pain">>

GenInputs == {gen_requiredFields[i] : i \in 1..Len(gen_requiredFields)}

TxtHighRiskCased == <<"H", "i", "g", "h", " ", "R", "i", "s", "k">>

MsgUnableToProcess ==
    <<"U", "n", "a", "b", "l", "e", " ", "t", "o", " ", "p", "r", "o", "c", "e", "s", "s", " ", "p", "r", "e", "d", "i", "c", "t", "i", "o", "n", ".", " ", "P", "l", "e", "a", "s", "e", " ", "t", "r", "y", " ", "a", "g", "a", "i", "n", ".">>

\* validateForm, one field: the alerts raised for it (none when it passes).
gen_validateField(field, raw) ==
    LET value == parseInt(raw)
    IN  IF isNaN(value) \/ value.v < 0 \/ value.v > 1
        THEN IF field = "age"
             THEN IF isNaN(value) \/ value.v < 1 \/ value.v > 120
                  THEN <<Alert("age", "Please enter a valid age between 1 and 120")>>
                  ELSE <<>>
             ELSE <<Alert(field, "Please enter 0 or 1")>>
        ELSE <<>>

\* The loop of validateForm from index i on: the alert of the first field that
\* fails.
RECURSIVE gen_firstAlert(_, _)
gen_firstAlert(value, i) ==
    IF i > Len(gen_requiredFields) THEN <<>>
    ELSE LET a == gen_validateField(gen_requiredFields[i], value[gen_requiredFields[i]])
         IN  IF a # <<>> THEN a ELSE gen_firstAlert(value, i + 1)

\* validateForm: the alerts raised before it returns (none when it returns
\* true).
gen_validateForm(value, gender) ==
    LET a == gen_firstAlert(value, 1)
    IN  IF a # <<>> THEN a
        ELSE IF gender = EmptyStr THEN <<Alert("gender", "Please select a gender")>>
        ELSE <<>>

\* showResult of the generic form.
gen_showResult(result) ==
    [display |-> "block",
     cls |-> IF Includes(result.prediction, TxtHighRiskCased)
             THEN "result-positive" ELSE "result-negative",
     text |-> result.prediction,
     description |-> [kind |-> IF Includes(result.prediction, TxtHighRiskCased)
                               THEN "high" ELSE "low",
                      text |-> EmptyStr, prob |-> result.prob, score |-> <<>>]]

\* The catch block of the submit handler: the message handed to showError.
gen_errorMessage(message) ==
    IF Includes(message, <<"f", "e", "t", "c", "h">>) THEN MsgUnableToConnect
    ELSE IF Includes(message, <<"J", "S", "O", "N">>) THEN MsgInvalidResponse
    ELSE IF message # EmptyStr THEN message
    ELSE MsgUnableToProcess

\* showError of the generic form.
gen_showError(errorMessage) ==
    [display |-> "block",
     cls |-> "result-positive",
     text |-> <<"E", "r", "r", "o", "r", " ", "o", "c", "c", "u", "r", "r", "e", "d">>,
     description |-> [kind |-> "error",
                      text |-> IF errorMessage # EmptyStr THEN errorMessage
                               ELSE MsgTryAgain,
                      prob |-> <<>>, score |-> <<>>]]

\* hideLoading of the generic form: the value given to submitButton.disabled.
gen_hideLoading_disabled == FALSE

gen_Init ==
    /\ gen_value = [f \in GenInputs |-> EmptyStr]
    /\ gen_gender = EmptyStr
    /\ gen_btnDisabled = FALSE
    /\ gen_btnText = "Analyze Risk Factors"
    /\ gen_loading = "none"
    /\ gen_result = [display |-> "none", cls |-> "", text |-> EmptyStr,
                     description |-> NoDescription]
    /\ gen_alert = NoAlert
    /\ gen_inFlight = 0

\* 'input' on a field: only the border colour reacts, which is not modelled.
gen_Input(f, raw) ==
    /\ ~gen_alert.open
    /\ gen_value' = [gen_value EXCEPT ![f] = raw]
    /\ UNCHANGED <<gen_gender, gen_btnDisabled, gen_btnText, gen_loading,
                   gen_result, gen_alert, gen_inFlight>>
    /\ UNCHANGED notGen

gen_InputEvent ==
    \E i \in 1..EditableFields : \E raw \in LungSamples :
        /\ raw # gen_value[gen_requiredFields[i]]
        /\ gen_Input(gen_requiredFields[i], raw)

\* The user fills the next empty input after the editable ones with 1.
gen_FillNext ==
    \E i \in (EditableFields + 1)..Len(gen_requiredFields) :
        /\ gen_value[gen_requiredFields[i]] = EmptyStr
        /\ \A j \in (EditableFields + 1)..(i - 1) :
                gen_value[gen_requiredFields[j]] # EmptyStr
        /\ gen_Input(gen_requiredFields[i], <<"1">>)

\* 'change' on a gender radio.
gen_GenderChange ==
    \E g \in GenderSamples :
        /\ ~gen_alert.open
        /\ g # gen_gender
        /\ gen_gender' = g
        /\ UNCHANGED <<gen_value, gen_btnDisabled, gen_btnText, gen_loading,
                       gen_result, gen_alert, gen_inFlight>>
        /\ UNCHANGED notGen

\* 'submit' on predictionForm, delivered only while the submit button is
\* enabled: validateForm, then showLoading and fetch up to its await.
gen_Submit ==
    LET alerts == gen_validateForm(gen_value, gen_gender)
    IN  /\ ~gen_alert.open
        /\ ~gen_btnDisabled
        /\ (alerts = <<>>) => (gen_inFlight < MaxInFlight)
        /\ IF alerts # <<>>
           THEN /\ gen_alert' = alerts[1]
                /\ UNCHANGED <<gen_btnDisabled, gen_btnText, gen_loading,
                               gen_result, gen_inFlight>>
           ELSE /\ gen_loading' = "block"
                /\ gen_result' = [gen_result EXCEPT !.display = "none"]
                /\ gen_btnDisabled' = TRUE
                /\ gen_btnText' = "Analyzing..."
                /\ gen_inFlight' = gen_inFlight + 1
                /\ UNCHANGED gen_alert
        /\ UNCHANGED <<gen_value, gen_gender>>
        /\ UNCHANGED notGen

\* The user closes the alert() dialog; nothing else runs while it is open.
gen_AlertDismiss ==
    /\ gen_alert.open
    /\ gen_alert' = NoAlert
    /\ UNCHANGED <<gen_value, gen_gender, gen_btnDisabled, gen_btnText,
                   gen_loading, gen_result, gen_inFlight>>
    /\ UNCHANGED notGen

\* The rest of the submit handler once the response is there: hideLoading and
\* showResult, or the catch block with hideLoading and showError.
gen_Response ==
    \E r \in LungResponses :
        LET call == makeAPICall(r)
        IN  /\ ~gen_alert.open
            /\ gen_inFlight > 0
            /\ gen_inFlight' = gen_inFlight - 1
            /\ gen_loading' = "none"
            /\ gen_btnDisabled' = gen_hideLoading_disabled
            /\ gen_btnText' = "Analyze Risk Factors"
            /\ gen_result' =
                 IF call.threw THEN gen_showError(gen_errorMessage(call.message))
                 ELSE IF r.kind = "ok" THEN gen_showResult(r)
                 ELSE gen_showError(gen_errorMessage(<<"C", "a", "n", "n", "o", "t", " ", "r", "e", "a", "d", " ", "p", "r", "o", "p", "e", "r", "t", "i", "e", "s", " ", "o", "f", " ", "u", "n", "d", "e", "f", "i", "n", "e", "d", " ", "(", "r", "e", "a", "d", "i", "n", "g", " ", "'", "i", "n", "c", "l", "u", "d", "e", "s", "'", ")">>))
            /\ UNCHANGED <<gen_value, gen_gender, gen_alert>>
            /\ UNCHANGED notGen

gen_Next ==
    \/ gen_InputEvent
    \/ gen_FillNext
    \/ gen_GenderChange
    \/ gen_Submit
    \/ gen_AlertDismiss
    \/ gen_Response

\* ================================================== CV risk-assessment form

\* The named controls of cvForm, as displayResults and generateRecommendations
\* read them from the submitted data.
cv_fields ==
    <<"age", "height", "weight", "ap_hi", "ap_lo", "gender", "cholesterol",
      "gluc", "smoke", "alco", "active">>

CvFields == {cv_fields[i] : i \in 1..Len(cv_fields)}

\* The controls of cvForm the user edits; the others stay as the page loads
\* them.
CvEditable == {"height", "weight"}

\* Raw values the user types into an editable control of cvForm.
CvSamples == {EmptyStr, <<"4", "5">>, <<"5", "0", "0">>}

\* The required, min and max attributes a control may declare: the markup is
\* not part of the scripts, so a control may have either set.
CvAttrChoices ==
    {[required |-> TRUE, min |-> <<"1">>, max |-> <<"3", "0", "0">>],
     [required |-> FALSE, min |-> <<"0">>, max |-> EmptyStr]}

CvResponses ==
    {[kind |-> "ok", prediction |-> TxtPredHighRisk, error |-> EmptyStr],
     [kind |-> "ok", prediction |-> TxtPredLowRisk, error |-> EmptyStr],
     [kind |-> "ok_no_prediction", prediction |-> EmptyStr, error |-> EmptyStr],
     [kind |-> "http_error", prediction |-> EmptyStr, error |-> TxtModelNotLoaded],
     [kind |-> "http_error", prediction |-> EmptyStr, error |-> EmptyStr],
     [kind |-> "bad_body", prediction |-> EmptyStr, error |-> EmptyStr],
     [kind |-> "transport", prediction |-> EmptyStr, error |-> EmptyStr]}

\* String.prototype.trim on the spaces of s.
RECURSIVE TrimLeft(_)
TrimLeft(s) == IF s # <<>> /\ Head(s) = " " THEN TrimLeft(Tail(s)) ELSE s

RECURSIVE TrimRight(_)
TrimRight(s) ==
    IF s # <<>> /\ s[Len(s)] = " " THEN TrimRight(SubSeq(s, 1, Len(s) - 1)) ELSE s

trim(s) == TrimRight(TrimLeft(s))

\* A number used as a condition: NaN and 0 are falsy.
truthy(x) == ~isNaN(x) /\ x.v # 0

\* validateField (blur): whether the control is valid, that is, does not get
\* the class 'error'.
cv_validateField(raw, attrs) ==
    LET value == trim(raw)
        num   == parseInt(value)
        min   == parseInt(attrs.min)
        max   == parseInt(attrs.max)
    IN  IF attrs.required /\ value = EmptyStr THEN FALSE
        ELSE ~(\/ isNaN(num)
               \/ (truthy(min) /\ num.v < min.v)
               \/ (truthy(max) /\ num.v > max.v))

\* The submit handler: the data object built from the FormData entries.
cv_collect(value) == [f \in CvFields |-> parseInt(value[f])]

\* displayResults: the class of the prediction block.
cv_displayResults(result) ==
    [display |-> "block",
     kind |-> "result",
     cls |-> IF \/ Includes(result.prediction, TxtHighRiskCased)
                \/ Includes(result.prediction, <<"H", "I", "G", "H", " ", "R", "I", "S", "K">>)
             THEN "risk-high" ELSE "risk-low",
     text |-> result.prediction]

\* displayError.
cv_displayError(errorMessage) ==
    [display |-> "block", kind |-> "error", cls |-> "risk-high",
     text |-> errorMessage]

cv_Init ==
    /\ cv_value = [f \in CvFields |-> EmptyStr]
    /\ cv_errorClass = {}
    /\ cv_loading = "none"
    /\ cv_results = [display |-> "none", kind |-> "", cls |-> "", text |-> EmptyStr]
    /\ cv_inFlight = EmptyBag

\* 'input' on a control: clearFieldError.
cv_InputEvent ==
    \E f \in CvEditable : \E raw \in CvSamples :
        /\ raw # cv_value[f]
        /\ cv_value' = [cv_value EXCEPT ![f] = raw]
        /\ cv_errorClass' = cv_errorClass \ {f}
        /\ UNCHANGED <<cv_loading, cv_results, cv_inFlight>>
        /\ UNCHANGED notCv

\* 'blur' on a control: validateField.
cv_Blur ==
    \E f \in CvEditable : \E attrs \in CvAttrChoices :
        /\ cv_errorClass' =
             IF cv_validateField(cv_value[f], attrs)
             THEN cv_errorClass \ {f} ELSE cv_errorClass \cup {f}
        /\ cv_errorClass' # cv_errorClass
        /\ UNCHANGED <<cv_value, cv_loading, cv_results, cv_inFlight>>
        /\ UNCHANGED notCv

\* 'submit' on cvForm, up to the await of fetch.
cv_Submit ==
    /\ BagCardinality(cv_inFlight) < MaxInFlight
    /\ cv_loading' = "flex"
    /\ cv_results' = [cv_results EXCEPT !.display = "none"]
    /\ cv_inFlight' = cv_inFlight (+) SetToBag({cv_collect(cv_value)})
    /\ UNCHANGED <<cv_value, cv_errorClass>>
    /\ UNCHANGED notCv

\* The rest of the submit handler once a request has resolved.
cv_Response ==
    \E data \in BagToSet(cv_inFlight) : \E r \in CvResponses :
        /\ cv_inFlight' = cv_inFlight (-) SetToBag({data})
        /\ cv_loading' = "none"
        /\ cv_results' =
             CASE r.kind = "ok" -> cv_displayResults(r)
               [] r.kind = "http_error" ->
                     cv_displayError(IF r.error # EmptyStr THEN r.error
                                     ELSE MsgPredictionError)
               [] OTHER -> cv_displayError(MsgNetworkError)
        /\ UNCHANGED <<cv_value, cv_errorClass>>
        /\ UNCHANGED notCv

\* 'reset' on cvForm: the browser restores the controls, the handler hides the
\* results and clears the error classes.
cv_Reset ==
    /\ cv_value' = [f \in CvFields |-> EmptyStr]
    /\ cv_results' = [cv_results EXCEPT !.display = "none"]
    /\ cv_errorClass' = {}
    /\ cv_value' # cv_value \/ cv_results' # cv_results \/ cv_errorClass' # cv_errorClass
    /\ UNCHANGED <<cv_loading, cv_inFlight>>
    /\ UNCHANGED notCv

cv_Next ==
    \/ cv_InputEvent
    \/ cv_Blur
    \/ cv_Submit
    \/ cv_Response
    \/ cv_Reset

\* The literals 18.5, 25 and 30.
Num18_5 == F64DivInt(37, 2)

Num25 == F64FromInt(25)

Num30 == F64FromInt(30)

\* displayResults: bmi = weight / (height * height) with height =
\* inputData.height / 100, kept as dividend and divisor; the Number bmi is
\* their quotient rounded, which bmiLess compares.
cv_bmi(weight, height) ==
    LET h == F64DivInt(height, 100)
    IN  [weight |-> F64FromInt(weight), heightSquared |-> F64Mul(h, h)]

\* bmi < t.
bmiLess(bmi, t) == F64QuotientLess(bmi.weight, bmi.heightSquared, t)

getBMICategory(bmi) ==
    IF bmiLess(bmi, Num18_5) THEN "Underweight"
    ELSE IF bmiLess(bmi, Num25) THEN "Normal weight"
    ELSE IF bmiLess(bmi, Num30) THEN "Overweight"
    ELSE "Obese"

getBMIColor(bmi) ==
    IF bmiLess(bmi, Num18_5) THEN "#3498db"
    ELSE IF bmiLess(bmi, Num25) THEN "#27ae60"
    ELSE IF bmiLess(bmi, Num30) THEN "#f39c12"
    ELSE "#e74c3c"

\* recommendations.slice(0, 8)
slice8(recommendations) ==
    SubSeq(recommendations, 1, IF Len(recommendations) < 8 THEN Len(recommendations) ELSE 8)

\* generateRecommendations(result, inputData, bmi): the list returned.  bmi is
\* the quotient computed by displayResults.
generateRecommendations(result, inputData, bmi) ==
    LET highRisk   == \/ Includes(result.prediction, <<"H", "i", "g", "h", " ", "R", "i", "s", "k">>)
                      \/ Includes(result.prediction, <<"H", "I", "G", "H", " ", "R", "I", "S", "K">>)
        pushed ==
            (IF highRisk
             THEN <<"Consult with a cardiologist for comprehensive evaluation",
                    "Consider cardiac screening tests (ECG, echocardiogram, stress test)">>
             ELSE <<>>)
            \o (IF ~bmiLess(bmi, Num30)
                THEN <<"Work with a nutritionist to develop a weight management plan",
                       "Start with low-impact exercises like walking or swimming">>
                ELSE IF ~bmiLess(bmi, Num25)
                THEN <<"Maintain a balanced diet with portion control",
                       "Incorporate regular physical activity (150 minutes/week)">>
                ELSE <<>>)
            \o (IF inputData.ap_hi >= 140 \/ inputData.ap_lo >= 90
                THEN <<"Monitor blood pressure regularly",
                       "Reduce sodium intake and follow DASH diet principles",
                       "Consider medication compliance if prescribed by doctor">>
                ELSE <<>>)
            \o (IF inputData.cholesterol >= 2
                THEN <<"Follow a heart-healthy diet low in saturated fats",
                       "Consider cholesterol-lowering medications if recommended">>
                ELSE <<>>)
            \o (IF inputData.gluc >= 2
                THEN <<"Monitor blood glucose levels regularly",
                       "Follow diabetic diet guidelines if applicable",
                       "Maintain stable blood sugar through diet and exercise">>
                ELSE <<>>)
            \o (IF inputData.smoke = 1
                THEN <<"URGENT: Quit smoking - seek professional help if needed",
                       "Consider nicotine replacement therapy or cessation programs">>
                ELSE <<>>)
            \o (IF inputData.alco = 1
                THEN <<"Limit alcohol consumption to moderate levels",
                       "Avoid binge drinking and consider alcohol-free days">>
                ELSE <<>>)
            \o (IF inputData.active = 0
                THEN <<"Start with light physical activities like walking",
                       "Gradually increase exercise intensity and duration",
                       "Aim for at least 150 minutes of moderate exercise weekly">>
                ELSE <<>>)
            \o (IF inputData.age >= 65
                THEN <<"Schedule regular cardiac check-ups (every 6 months)",
                       "Monitor for signs of heart disease more closely">>
                ELSE <<>>)
            \o (IF inputData.gender = 1 /\ inputData.age >= 55
                THEN <<"Discuss hormone replacement therapy risks/benefits with doctor",
                       "Increase calcium and vitamin D intake for bone health">>
                ELSE <<>>)
            \o <<"Maintain regular sleep schedule (7-9 hours per night)",
                 "Practice stress management techniques (meditation, yoga)",
                 "Stay hydrated and maintain a balanced, nutritious diet">>
        recommendations ==
            IF Len(pushed) = 0
            THEN <<"Continue maintaining your current healthy lifestyle",
                   "Schedule regular check-ups with your healthcare provider",
                   "Stay physically active and eat a balanced diet">>
            ELSE pushed
    IN  slice8(recommendations)

\* ====================================================== Eye disease detector

\* A list of types that lets PDF documents through: what C19 rules out.
C19_Mutant_validTypes ==
    {"image/jpeg", "image/jpg", "image/png", "image/gif", "image/bmp",
     "application/pdf"}

validTypes == {"image/jpeg", "image/jpg", "image/png", "image/gif", "image/bmp"}

maxSize == 10 * 1024 * 1024

\* The files the user selects or drops.
EyeFiles ==
    {[name |-> "a.jpg", type |-> "image/jpeg", size |-> 2048],
     [name |-> "b.png", type |-> "image/png", size |-> maxSize],
     [name |-> "c.pdf", type |-> "application/pdf", size |-> 2048],
     [name |-> "d.jpg", type |-> "image/jpeg", size |-> maxSize + 1],
     [name |-> "e.svg", type |-> "image/svg+xml", size |-> 2048],
     [name |-> "f.bmp", type |-> "image/bmp", size |-> maxSize + 1],
     [name |-> "g", type |-> "", size |-> 0]}

NoFile == [name |-> "", type |-> "", size |-> 0]

MsgNoImage == "No image provided"

\* What /eye/predict may answer.  dist is the probability distribution in the
\* order of the response's keys.
EyeResponses ==
    {[kind |-> "ok", detected_class |-> <<"N", "o", "r", "m", "a", "l">>, error |-> "",
      dist |-> <<[cls |-> "Normal", p |-> 90], [cls |-> "Cataract", p |-> 10]>>],
     [kind |-> "ok", detected_class |-> <<"C", "a", "t", "a", "r", "a", "c", "t">>, error |-> "",
      dist |-> <<[cls |-> "Normal", p |-> 20], [cls |-> "Cataract", p |-> 80]>>],
     [kind |-> "ok", detected_class |-> <<"O", "t", "h", "e", "r">>, error |-> "",
      dist |-> <<[cls |-> "Other", p |-> 50], [cls |-> "Normal", p |-> 50]>>],
     [kind |-> "ok", detected_class |-> <<"N", "O", "R", "M", "A", "L">>, error |-> "",
      dist |-> <<[cls |-> "Glaucoma", p |-> 30], [cls |-> "Normal", p |-> 25],
                 [cls |-> "Cataract", p |-> 45]>>],
     [kind |-> "ok_no_class", detected_class |-> EmptyStr, error |-> "", dist |-> <<>>],
     [kind |-> "http_error", detected_class |-> EmptyStr, error |-> MsgNoImage,
      dist |-> <<>>],
     [kind |-> "http_error", detected_class |-> EmptyStr, error |-> "", dist |-> <<>>],
     [kind |-> "bad_body", detected_class |-> EmptyStr, error |-> "", dist |-> <<>>],
     [kind |-> "transport", detected_class |-> EmptyStr, error |-> "", dist |-> <<>>]}

NoResults == [kind |-> "none", detected_class |-> EmptyStr, dist |-> <<>>, file |-> ""]

CardHidden == [display |-> "none", message |-> ""]

ResultsHidden == [display |-> "none", icon |-> "", list |-> <<>>]

PreviewHidden == [display |-> "none", name |-> ""]

\* showError: the error card.
eye_showError(message) == [display |-> "block", message |-> message]

\* hideResults: the results card keeps its content and is no longer displayed.
eye_hideResults(card) == [card EXCEPT !.display = "none"]

\* hideError: errorMessage keeps its text.
eye_hideError(card) == [card EXCEPT !.display = "none"]

\* setLoadingState(false): the state of analyzeBtn.disabled it leaves.
eye_setLoadingState_false_disabled == FALSE

\* displayResults: the class added to resultIcon.
eye_resultIcon(detected_class) ==
    IF toLowerCase(detected_class) = <<"n", "o", "r", "m", "a", "l">> THEN "success"
    ELSE IF toLowerCase(detected_class) = <<"o", "t", "h", "e", "r">> THEN "warning"
    ELSE "danger"

\* An Array.prototype.sort that leaves the entries as they come: what C20
\* rules out.
C20_Mutant_sortDescending(entries) == entries

\* Object.entries(probabilities).sort(([,a], [,b]) => b - a): the sort is
\* stable, so an entry goes before the first entry of the sorted rest that has
\* a smaller percentage.
RECURSIVE eye_sortDescending(_)
eye_sortDescending(entries) ==
    IF entries = <<>> THEN <<>>
    ELSE LET rest == eye_sortDescending(Tail(entries))
             n    == Cardinality({i \in 1..Len(rest) :
                                    \A j \in 1..i : rest[j].p > Head(entries).p})
         IN  SubSeq(rest, 1, n) \o <<Head(entries)>> \o SubSeq(rest, n + 1, Len(rest))

\* displayProbabilityDistribution: the items of probabilityList.
displayProbabilityDistribution(probabilities) == eye_sortDescending(probabilities)

\* The data object a response carries, tagged with the file that was sent.
eye_data(r, file) ==
    [kind |-> r.kind, detected_class |-> r.detected_class, dist |-> r.dist,
     file |-> file.name]

eye_Init ==
    /\ eye_currentFile = NoFile
    /\ eye_currentResults = NoResults
    /\ eye_analyzeDisabled = TRUE
    /\ eye_spinner = "none"
    /\ eye_errorCard = CardHidden
    /\ eye_resultsCard = ResultsHidden
    /\ eye_preview = PreviewHidden
    /\ eye_uploadArea = "block"
    /\ eye_readers = {}
    /\ eye_inFlight = <<>>

\* processFile(file).
eye_processFileOn(file) ==
    /\ IF file.type \notin validTypes
       THEN /\ eye_errorCard' = eye_showError("Please select a valid image file (PNG, JPG, JPEG, GIF, BMP)")
            /\ eye_resultsCard' = eye_hideResults(eye_resultsCard)
            /\ UNCHANGED <<eye_currentFile, eye_readers, eye_analyzeDisabled>>
       ELSE IF file.size > maxSize
       THEN /\ eye_errorCard' = eye_showError("File size must be less than 10MB")
            /\ eye_resultsCard' = eye_hideResults(eye_resultsCard)
            /\ UNCHANGED <<eye_currentFile, eye_readers, eye_analyzeDisabled>>
       ELSE /\ eye_currentFile' = file
            /\ eye_readers' = eye_readers \cup {file}
            /\ eye_analyzeDisabled' = FALSE
            /\ eye_errorCard' = eye_hideError(eye_errorCard)
            /\ UNCHANGED eye_resultsCard
    /\ UNCHANGED <<eye_currentResults, eye_spinner, eye_preview, eye_uploadArea,
                   eye_inFlight>>
    /\ UNCHANGED notEye

\* handleFileSelect / handleDrop: processFile on the file selected or dropped.
\* The upload area is the control that takes the file, so it has to be
\* displayed.
eye_processFile ==
    \E file \in EyeFiles :
        /\ eye_uploadArea = "block"
        /\ eye_processFileOn(file)

\* reader.onload of displayImagePreview.
eye_ReaderLoad ==
    \E file \in eye_readers :
        /\ eye_readers' = eye_readers \ {file}
        /\ eye_preview' = [display |-> "block", name |-> file.name]
        /\ eye_uploadArea' = "none"
        /\ UNCHANGED <<eye_currentFile, eye_currentResults, eye_analyzeDisabled,
                       eye_spinner, eye_errorCard, eye_resultsCard, eye_inFlight>>
        /\ UNCHANGED notEye

\* removeImage, as a function of the state: the variables it assigns.
eye_removeImage ==
    /\ eye_currentFile' = NoFile
    /\ eye_preview' = PreviewHidden
    /\ eye_uploadArea' = "block"
    /\ eye_analyzeDisabled' = TRUE
    /\ eye_resultsCard' = eye_hideResults(eye_resultsCard)
    /\ eye_errorCard' = eye_hideError(eye_errorCard)

\* click on removeImageBtn, which sits in the image preview.
eye_RemoveClick ==
    /\ eye_preview.display = "block"
    /\ eye_removeImage
    /\ UNCHANGED <<eye_currentResults, eye_spinner, eye_readers, eye_inFlight>>
    /\ UNCHANGED notEye

\* An analyzeImage that sends its request a second time on its own: what C23
\* rules out.
C23_Mutant_analyzeImage(errorBefore) ==
    IF eye_currentFile = NoFile
    THEN /\ eye_errorCard' = eye_showError("Please select an image first")
         /\ eye_resultsCard' = eye_hideResults(eye_resultsCard)
         /\ UNCHANGED <<eye_analyzeDisabled, eye_spinner, eye_inFlight>>
    ELSE /\ Len(eye_inFlight) + 1 < MaxInFlight
         /\ eye_analyzeDisabled' = TRUE
         /\ eye_spinner' = "block"
         /\ eye_errorCard' = eye_hideError(errorBefore)
         /\ eye_resultsCard' = eye_hideResults(eye_resultsCard)
         /\ eye_inFlight' = eye_inFlight \o <<eye_currentFile, eye_currentFile>>

\* analyzeImage up to the await of fetch; errorBefore is the error card as
\* the caller left it.
eye_analyzeImage(errorBefore) ==
    IF eye_currentFile = NoFile
    THEN /\ eye_errorCard' = eye_showError("Please select an image first")
         /\ eye_resultsCard' = eye_hideResults(eye_resultsCard)
         /\ UNCHANGED <<eye_analyzeDisabled, eye_spinner, eye_inFlight>>
    ELSE /\ Len(eye_inFlight) < MaxInFlight
         /\ eye_analyzeDisabled' = TRUE
         /\ eye_spinner' = "block"
         /\ eye_errorCard' = eye_hideError(errorBefore)
         /\ eye_resultsCard' = eye_hideResults(eye_resultsCard)
         /\ eye_inFlight' = Append(eye_inFlight, eye_currentFile)

\* click on analyzeBtn: a disabled button takes no click.
eye_AnalyzeClick ==
    /\ ~eye_analyzeDisabled
    /\ eye_analyzeImage(eye_errorCard)
    /\ UNCHANGED <<eye_currentFile, eye_currentResults, eye_preview, eye_uploadArea,
                   eye_readers>>
    /\ UNCHANGED notEye

\* click on retryBtn, which sits on the error card: retryAnalysis.
eye_retryAnalysis ==
    /\ eye_errorCard.display = "block"
    /\ eye_analyzeImage(eye_hideError(eye_errorCard))
    /\ UNCHANGED <<eye_currentFile, eye_currentResults, eye_preview, eye_uploadArea,
                   eye_readers>>
    /\ UNCHANGED notEye

\* The rest of analyzeImage once the request has resolved.
eye_Response ==
    \E i \in 1..Len(eye_inFlight) : \E r \in EyeResponses :
        /\ eye_inFlight' = SubSeq(eye_inFlight, 1, i - 1)
                             \o SubSeq(eye_inFlight, i + 1, Len(eye_inFlight))
        /\ CASE r.kind = "ok" ->
                  /\ eye_currentResults' = eye_data(r, eye_inFlight[i])
                  /\ eye_resultsCard' =
                       [display |-> "block",
                        icon |-> eye_resultIcon(r.detected_class),
                        list |-> displayProbabilityDistribution(r.dist)]
                  /\ UNCHANGED eye_errorCard
             [] r.kind = "ok_no_class" ->
                  /\ eye_currentResults' = eye_data(r, eye_inFlight[i])
                  /\ eye_errorCard' = eye_showError("Network error. Please check your connection and try again.")
                  /\ eye_resultsCard' =
                       [display |-> "none", icon |-> "", list |-> eye_resultsCard.list]
             [] r.kind = "http_error" ->
                  /\ eye_errorCard' =
                       eye_showError(IF r.error # "" THEN r.error ELSE "Analysis failed. Please try again.")
                  /\ eye_resultsCard' = eye_hideResults(eye_resultsCard)
                  /\ UNCHANGED eye_currentResults
             [] OTHER ->
                  /\ eye_errorCard' = eye_showError("Network error. Please check your connection and try again.")
                  /\ eye_resultsCard' = eye_hideResults(eye_resultsCard)
                  /\ UNCHANGED eye_currentResults
        /\ eye_analyzeDisabled' = eye_setLoadingState_false_disabled
        /\ eye_spinner' = "none"
        /\ UNCHANGED <<eye_currentFile, eye_preview, eye_uploadArea, eye_readers>>
        /\ UNCHANGED notEye

\* click on newAnalysisBtn, which sits on the results card.
eye_startNewAnalysis ==
    /\ eye_resultsCard.display = "block"
    /\ eye_removeImage
    /\ UNCHANGED <<eye_currentResults, eye_spinner, eye_readers, eye_inFlight>>
    /\ UNCHANGED notEye

\* generateReport: the image line and the results of the report.
eye_generateReport ==
    [image |-> IF eye_currentFile # NoFile THEN eye_currentFile.name ELSE "Unknown",
     results |-> eye_currentResults]

\* click on downloadResultsBtn, which sits on the results card.  The report
\* handed to the browser is eye_generateReport; the page itself is unchanged.
eye_downloadResults ==
    /\ eye_resultsCard.display = "block"
    /\ IF eye_currentResults = NoResults
       THEN /\ eye_errorCard' = eye_showError("No results available for download")
            /\ eye_resultsCard' = eye_hideResults(eye_resultsCard)
       ELSE UNCHANGED <<eye_errorCard, eye_resultsCard>>
    /\ UNCHANGED <<eye_currentFile, eye_currentResults, eye_analyzeDisabled,
                   eye_spinner, eye_preview, eye_uploadArea, eye_readers, eye_inFlight>>
    /\ UNCHANGED notEye

eye_Next ==
    \/ eye_processFile
    \/ eye_ReaderLoad
    \/ eye_RemoveClick
    \/ eye_AnalyzeClick
    \/ eye_retryAnalysis
    \/ eye_Response
    \/ eye_startNewAnalysis
    \/ eye_downloadResults

\* ===================================== cardiovascular form (cardiovascular.js)

cardio_fieldNames ==
    <<"age", "sex", "chest_pain_type", "resting_bp", "cholesterol",
      "fasting_bs", "rest_ecg", "max_heart_rate", "exercise_angina",
      "oldpeak", "slope", "major_vessels", "thal">>

CardioFields == {cardio_fieldNames[i] : i \in 1..Len(cardio_fieldNames)}

\* formFields: type, min and max in hundredths, and the declared option codes.
formFields ==
    [age |-> [type |-> "number", min |-> 100, max |-> 12000, options |-> {}],
     sex |-> [type |-> "select", min |-> 0, max |-> 0, options |-> {<<"0">>, <<"1">>}],
     chest_pain_type |-> [type |-> "select", min |-> 0, max |-> 0,
                          options |-> {<<"0">>, <<"1">>, <<"2">>, <<"3">>}],
     resting_bp |-> [type |-> "number", min |-> 8000, max |-> 25000, options |-> {}],
     cholesterol |-> [type |-> "number", min |-> 10000, max |-> 60000, options |-> {}],
     fasting_bs |-> [type |-> "select", min |-> 0, max |-> 0, options |-> {<<"0">>, <<"1">>}],
     rest_ecg |-> [type |-> "select", min |-> 0, max |-> 0, options |-> {<<"0">>, <<"1">>, <<"2">>}],
     max_heart_rate |-> [type |-> "number", min |-> 6000, max |-> 22000, options |-> {}],
     exercise_angina |-> [type |-> "select", min |-> 0, max |-> 0, options |-> {<<"0">>, <<"1">>}],
     oldpeak |-> [type |-> "number", min |-> 0, max |-> 1000, options |-> {}],
     slope |-> [type |-> "select", min |-> 0, max |-> 0, options |-> {<<"0">>, <<"1">>, <<"2">>}],
     major_vessels |-> [type |-> "select", min |-> 0, max |-> 0,
                        options |-> {<<"0">>, <<"1">>, <<"2">>, <<"3">>}],
     thal |-> [type |-> "select", min |-> 0, max |-> 0, options |-> {<<"1">>, <<"2">>, <<"3">>}]]

\* The values fillDemoData gives the inputs.
cardio_demoData ==
    [age |-> <<"5", "8">>, sex |-> <<"1">>, chest_pain_type |-> <<"0">>,
     resting_bp |-> <<"1", "5", "0">>, cholesterol |-> <<"2", "8", "3">>, fasting_bs |-> <<"1">>,
     rest_ecg |-> <<"1">>, max_heart_rate |-> <<"1", "6", "2">>, exercise_angina |-> <<"0">>,
     oldpeak |-> <<"1">>, slope |-> <<"2">>, major_vessels |-> <<"0">>, thal |-> <<"3">>]

\* validateField: the class the control gets and the value returned.
cardio_validateField(fieldName, raw) ==
    LET fieldConfig == formFields[fieldName]
        value       == parseFloat(raw)
    IN  IF raw = EmptyStr THEN [ok |-> FALSE, cls |-> ""]
        ELSE IF fieldConfig.type = "number"
                /\ (isNaN(value) \/ value.v < fieldConfig.min \/ value.v > fieldConfig.max)
             THEN [ok |-> FALSE, cls |-> "invalid"]
        ELSE [ok |-> TRUE, cls |-> "valid"]

\* validateForm: the errors pushed, in the order of the keys of formFields.
RECURSIVE cardio_errorsFrom(_, _)
cardio_errorsFrom(value, i) ==
    IF i > Len(cardio_fieldNames) THEN <<>>
    ELSE LET f == cardio_fieldNames[i]
             e == IF value[f] = EmptyStr
                  THEN <<[field |-> f, problem |-> "is required"]>>
                  ELSE IF ~cardio_validateField(f, value[f]).ok
                  THEN <<[field |-> f, problem |-> "has an invalid value"]>>
                  ELSE <<>>
         IN  e \o cardio_errorsFrom(value, i + 1)

\* validateForm: the value returned and the errors shown.
cardio_validateForm(value) ==
    [isValid |-> cardio_errorsFrom(value, 1) = <<>>,
     errors  |-> cardio_errorsFrom(value, 1)]

\* displayResults: the class given to the result container.
cardio_displayResults(result) ==
    [display |-> "block",
     cls |-> IF Includes(result.prediction, <<"H", "I", "G", "H", " ", "R", "I", "S", "K">>)
             THEN "high-risk" ELSE "low-risk"]

\* ================= heart-disease form with blocking values (bundle, part 2)

heart_fieldNames ==
    <<"age", "sex", "chest_pain_type", "resting_bp", "cholesterol",
      "fasting_bs", "rest_ecg", "max_heart_rate", "exercise_angina",
      "oldpeak", "slope", "major_vessels", "thal">>

\* formFields of this form: the fields of type 'number' with min and max, in
\* hundredths.  The other eight fields are of type 'select'.
heart_formFields ==
    [age            |-> [min |-> 2000, max |-> 10000],
     resting_bp     |-> [min |-> 8000, max |-> 22000],
     cholesterol    |-> [min |-> 8000, max |-> 40000],
     max_heart_rate |-> [min |-> 5000, max |-> 20000],
     oldpeak        |-> [min |-> 0,    max |-> 600]]

\* The inputs document.getElementById finds: the numeric ones.  The eight
\* 'select' fields are groups of radio buttons, reached by name only
\* (getFieldValue, the 'change' listeners), so validateForm and fillDemoData
\* pass over them.
HeartInputs == DOMAIN heart_formFields

\* The values the user types into each input.
HeartSamples ==
    [age            |-> {EmptyStr, <<"5", "8">>, <<"1", "9">>, <<"1", "0", "1">>},
     resting_bp     |-> {EmptyStr, <<"1", "5", "0">>, <<"2", "5", "0">>, <<"5", "9">>},
     cholesterol    |-> {EmptyStr, <<"2", "8", "3">>, <<"5", "0", "0">>, <<"4", "9">>},
     max_heart_rate |-> {EmptyStr, <<"1", "6", "2">>, <<"2", "5", "0">>, <<"3", "9">>},
     oldpeak        |-> {EmptyStr, <<"1">>, <<"1", "0">>, <<"7">>}]

\* fillDemoData: the values it gives the inputs it finds by id.
heart_demoData ==
    [age |-> <<"5", "8">>, resting_bp |-> <<"1", "5", "0">>, cholesterol |-> <<"2", "8", "3">>,
     max_heart_rate |-> <<"1", "6", "2">>, oldpeak |-> <<"1">>]

\* validateField: the blocking conditions on the parsed value.
heart_isBlocking(fieldName, value) ==
    /\ ~isNaN(value)
    /\ CASE fieldName = "age"            -> value.v < 2000 \/ value.v > 10000
         [] fieldName = "resting_bp"     -> value.v >= 25000 \/ value.v < 6000
         [] fieldName = "cholesterol"    -> value.v >= 50000 \/ value.v < 5000
         [] fieldName = "max_heart_rate" -> value.v >= 25000 \/ value.v < 4000
         [] fieldName = "oldpeak"        -> value.v >= 1000

\* A validateField without the type-specific validation: what C21 rules out.
C21_Mutant_validateField(fieldName, raw) ==
    IF raw = EmptyStr THEN [ok |-> FALSE, classes |-> {}]
    ELSE [ok |-> TRUE, classes |-> {"valid"}]

\* validateField on a numeric input: what it returns and the validation
\* classes the input carries afterwards.
heart_validateField(fieldName, raw) ==
    LET fieldConfig == heart_formFields[fieldName]
        value       == parseFloat(raw)
    IN  IF raw = EmptyStr THEN [ok |-> FALSE, classes |-> {}]
        ELSE IF heart_isBlocking(fieldName, value)
        THEN [ok |-> FALSE, classes |-> {"blocking-invalid"}]
        ELSE IF isNaN(value) \/ value.v < fieldConfig.min \/ value.v > fieldConfig.max
        THEN [ok |-> FALSE, classes |-> {"invalid"}]
        ELSE [ok |-> TRUE, classes |-> {"valid"}]

\* validateForm, the classes the inputs carry after its loop.
heart_classesAfterValidate(value, classes) ==
    [f \in HeartInputs |->
        IF value[f] = EmptyStr THEN classes[f] \cup {"invalid"}
        ELSE heart_validateField(f, value[f]).classes]

\* validateForm: the value returned, the classes left on the inputs and the
\* kind of message handed to showError ("" when none is).
heart_validateForm(value, classes) ==
    LET after             == heart_classesAfterValidate(value, classes)
        isValid           == \A f \in HeartInputs :
                                 /\ value[f] # EmptyStr
                                 /\ heart_validateField(f, value[f]).ok
        hasBlockingErrors == \E f \in HeartInputs : "blocking-invalid" \in after[f]
    IN  [ok      |-> ~hasBlockingErrors /\ isValid,
         classes |-> after,
         error   |-> IF hasBlockingErrors THEN "correct the highlighted values"
                     ELSE IF ~isValid THEN "correct the following errors"
                     ELSE ""]

\* updateProgress: completed fields out of thirteen; the radio groups are
\* answered together.
heart_updateProgress(value, radio) ==
    LET completedFields == Cardinality({f \in HeartInputs : value[f] # EmptyStr})
                             + (IF radio # EmptyStr THEN 8 ELSE 0)
    IN  (completedFields * 10000) \div Len(heart_fieldNames)

\* updateSubmitButton: the text of the button, which is never disabled.
heart_updateSubmitButton(value, radio, classes) ==
    LET allComplete       == /\ \A f \in HeartInputs : value[f] # EmptyStr
                             /\ radio # EmptyStr
        hasBlockingErrors == \E f \in HeartInputs : "blocking-invalid" \in classes[f]
    IN  IF hasBlockingErrors THEN "Review Values & Submit"
        ELSE IF allComplete THEN "Assess Heart Disease Risk"
        ELSE "Complete all fields to continue"

heart_Init ==
    /\ heart_value = [f \in HeartInputs |-> EmptyStr]
    /\ heart_class = [f \in HeartInputs |-> {}]
    /\ heart_radio = EmptyStr
    /\ heart_progress = 0
    /\ heart_btnText = "Complete all fields to continue"
    /\ heart_spinner = FALSE
    /\ heart_result = "none"
    /\ heart_error = ""
    /\ heart_pending = 0

\* 'input' on a numeric input: validateField, updateProgress,
\* updateSubmitButton.
heart_Input ==
    \E f \in HeartInputs : \E raw \in HeartSamples[f] :
        LET value   == [heart_value EXCEPT ![f] = raw]
            classes == [heart_class EXCEPT ![f] = heart_validateField(f, raw).classes]
        IN  /\ raw # heart_value[f]
            /\ heart_value' = value
            /\ heart_class' = classes
            /\ heart_progress' = heart_updateProgress(value, heart_radio)
            /\ heart_btnText' = heart_updateSubmitButton(value, heart_radio, classes)
            /\ UNCHANGED <<heart_radio, heart_spinner, heart_result, heart_error,
                           heart_pending>>
            /\ UNCHANGED notHeart

\* 'change' on the radio buttons: updateProgress, updateSubmitButton.
heart_RadioChange ==
    /\ heart_radio = EmptyStr
    /\ heart_radio' = <<"1">>
    /\ heart_progress' = heart_updateProgress(heart_value, <<"1">>)
    /\ heart_btnText' = heart_updateSubmitButton(heart_value, <<"1">>, heart_class)
    /\ UNCHANGED <<heart_value, heart_class, heart_spinner, heart_result,
                   heart_error, heart_pending>>
    /\ UNCHANGED notHeart

\* click on the demo button: fillDemoData.
heart_fillDemoData ==
    LET classes == [f \in HeartInputs |->
                       heart_validateField(f, heart_demoData[f]).classes]
    IN  /\ heart_value # heart_demoData
        /\ heart_value' = heart_demoData
        /\ heart_class' = classes
        /\ heart_progress' = heart_updateProgress(heart_demoData, heart_radio)
        /\ heart_btnText' = heart_updateSubmitButton(heart_demoData, heart_radio, classes)
        /\ UNCHANGED <<heart_radio, heart_spinner, heart_result, heart_error,
                       heart_pending>>
        /\ UNCHANGED notHeart

\* submitPrediction up to setTimeout.
heart_submitPrediction ==
    /\ heart_spinner' = TRUE
    /\ heart_result' = "none"
    /\ heart_pending' = heart_pending + 1

\* 'submit' on the form: validateForm and, when it returns true,
\* submitPrediction.
heart_Submit ==
    LET v == heart_validateForm(heart_value, heart_class)
    IN  /\ v.ok => heart_pending < MaxInFlight
        /\ heart_class' = v.classes
        /\ IF v.ok
           THEN /\ heart_submitPrediction
                /\ UNCHANGED heart_error
           ELSE /\ heart_error' = v.error
                /\ UNCHANGED <<heart_spinner, heart_result, heart_pending>>
        /\ UNCHANGED <<heart_value, heart_radio, heart_progress, heart_btnText>>
        /\ UNCHANGED notHeart

\* The timer of submitPrediction fires: the spinner goes and displayResults
\* shows the drawn result.
heart_Timeout ==
    \E prediction \in {"HIGH RISK", "LOW RISK"} :
        /\ heart_pending > 0
        /\ heart_pending' = heart_pending - 1
        /\ heart_spinner' = FALSE
        /\ heart_result' = IF prediction = "HIGH RISK" THEN "high-risk" ELSE "low-risk"
        /\ UNCHANGED <<heart_value, heart_class, heart_radio, heart_progress,
                       heart_btnText, heart_error>>
        /\ UNCHANGED notHeart

\* The timer of showError fires: the message is removed.
heart_ErrorTimeout ==
    /\ heart_error # ""
    /\ heart_error' = ""
    /\ UNCHANGED <<heart_value, heart_class, heart_radio, heart_progress,
                   heart_btnText, heart_spinner, heart_result, heart_pending>>
    /\ UNCHANGED notHeart

heart_Next ==
    \/ heart_Input
    \/ heart_RadioChange
    \/ heart_fillDemoData
    \/ heart_Submit
    \/ heart_Timeout
    \/ heart_ErrorTimeout

\* ============================================ dashboard page (bundle, part 2)

\* let currentOpenDetails = null: the variable holds null or a prediction id,
\* written <<>> and <<id>>.
Null == <<>>

\* The predictions listed: each has a row details-<id> and a text btn-text-<id>.
PredictionIds == 0..MaxPredictionId

\* The truth value JavaScript gives x in a condition: null and 0 are falsy.
dash_truthy(x) == x # Null /\ x[1] # 0

\* A details row starts hidden, by its style attribute or by the stylesheet.
dash_Init ==
    /\ dash_display \in [PredictionIds -> {"none", ""}]
    /\ dash_btnText = [id \in PredictionIds |-> "View Details"]
    /\ currentOpenDetails = Null

\* The dashboard while another page is the one open.
dash_Idle ==
    /\ dash_display = [id \in PredictionIds |-> "none"]
    /\ dash_btnText = [id \in PredictionIds |-> "View Details"]
    /\ currentOpenDetails = Null

\* toggleDetails(predictionId); an id without a row returns at once.
toggleDetails(predictionId) ==
    IF predictionId \notin PredictionIds
    THEN UNCHANGED <<dash_display, dash_btnText, currentOpenDetails>>
    ELSE LET closePrev == /\ dash_truthy(currentOpenDetails)
                          /\ currentOpenDetails # <<predictionId>>
             display   == IF closePrev
                          THEN [dash_display EXCEPT ![currentOpenDetails[1]] = "none"]
                          ELSE dash_display
             btnText   == IF closePrev
                          THEN [dash_btnText EXCEPT ![currentOpenDetails[1]] = "View Details"]
                          ELSE dash_btnText
         IN  IF display[predictionId] = "none" \/ display[predictionId] = ""
             THEN /\ dash_display' = [display EXCEPT ![predictionId] = "table-row"]
                  /\ dash_btnText' = [btnText EXCEPT ![predictionId] = "Hide Details"]
                  /\ currentOpenDetails' = <<predictionId>>
             ELSE /\ dash_display' = [display EXCEPT ![predictionId] = "none"]
                  /\ dash_btnText' = [btnText EXCEPT ![predictionId] = "View Details"]
                  /\ currentOpenDetails' = Null

\* click on the button of a prediction.
dash_ToggleClick ==
    \E predictionId \in 0..(MaxPredictionId + 1) :
        /\ toggleDetails(predictionId)
        /\ UNCHANGED notDash

dash_Next == dash_ToggleClick

\* ================================================ debounce (bundle, part 1)

\* The arguments the debounced function is called with.
DebArgs == {"a", "b"}

\* A clearTimeout that cancels nothing: what C25 rules out.
C25_Mutant_clearTimeout(timers, id) == timers

\* clearTimeout(id): the timer of that id, if still set, is cancelled.
clearTimeout(timers, id) == {t \in timers : t.id # id}

\* The calls of the debounced function recorded so far; every call sets one
\* timer, so the next timer id is one more.
deb_calls == {i \in 1..Len(deb_log) : deb_log[i].op = "call"}

deb_Init ==
    /\ deb_wait \in 1..MaxWait
    /\ deb_now = 0
    /\ deb_timers = {}
    /\ deb_timeout = 0
    /\ deb_log = <<>>

\* No debounced function has been made.
deb_Idle ==
    /\ deb_wait = 1
    /\ deb_now = 0
    /\ deb_timers = {}
    /\ deb_timeout = 0
    /\ deb_log = <<>>

\* executedFunction(...args): clearTimeout(timeout), then
\* timeout = setTimeout(later, wait).  A call is recorded only while the log
\* has room for it and for the call of func it leads to.
executedFunction ==
    \E args \in DebArgs :
        LET id == Cardinality(deb_calls) + 1
        IN  /\ Len(deb_log) + 1 < MaxLog
            /\ deb_timers' = clearTimeout(deb_timers, deb_timeout)
                               \cup {[id |-> id, due |-> deb_now + deb_wait, args |-> args]}
            /\ deb_timeout' = id
            /\ deb_log' = Append(deb_log, [op |-> "call", at |-> deb_now, args |-> args])
            /\ UNCHANGED <<deb_wait, deb_now>>
            /\ UNCHANGED notDeb

\* later(): a timer that is due fires, at its time or after it:
\* clearTimeout(timeout), then func(...args) with the args of the call that
\* set it.
later ==
    \E t \in deb_timers :
        /\ t.due <= deb_now
        /\ deb_timers' = clearTimeout(deb_timers \ {t}, deb_timeout)
        /\ deb_log' = Append(deb_log, [op |-> "func", at |-> deb_now, args |-> t.args])
        /\ UNCHANGED <<deb_wait, deb_now, deb_timeout>>
        /\ UNCHANGED notDeb

\* A millisecond passes.
deb_Tick ==
    /\ deb_now < MaxTime
    /\ deb_now' = deb_now + 1
    /\ UNCHANGED <<deb_wait, deb_timers, deb_timeout, deb_log>>
    /\ UNCHANGED notDeb

deb_Next ==
    \/ executedFunction
    \/ later
    \/ deb_Tick

\* ================================================== Functions on their own

NoCall == [fn |-> "none"]

NoReturn == [none |-> TRUE]

\* A page that runs its handlers examines no call.
call_Init ==
    /\ call_args = NoCall
    /\ call_done = FALSE
    /\ call_ret = NoReturn

\* Characters of the raw strings: digits, the decimal point, a sign, a letter.
RawChars == {"0", "1", "5", ".", "-", "a"}

\* Every string over RawChars of at most MaxRawLen characters.
RawStrings == UNION {[1..n -> RawChars] : n \in 0..MaxRawLen}

\* The call returns: call_ret becomes ret.
Return(ret) ==
    /\ ~call_done
    /\ call_done' = TRUE
    /\ call_ret' = ret
    /\ UNCHANGED <<call_args, pageVars>>

\* validateField(field) of the COVID form on an input named field whose value
\* is raw.
covid_CallValidateField ==
    /\ call_args.fn = "covid.validateField"
    /\ Return(covid_validateField(call_args.field, call_args.raw))

\* A lung-cancer or generic form whose inputs all hold acceptable values,
\* except that the binary input named field holds raw.
BinaryFormWith(field, raw) ==
    [f \in LungInputs |->
        IF f = field THEN raw
        ELSE IF f = "age" THEN <<"4", "5">> ELSE <<"1">>]

\* validateBinaryInput(input, fieldName) on an input whose value is raw.
CallValidateBinaryInput ==
    /\ call_args.fn = "validateBinaryInput"
    /\ Return(validateBinaryInput(call_args.raw, call_args.field))

\* validateForm of the lung-cancer form, a gender being selected.
lung_CallValidateForm ==
    /\ call_args.fn = "lung.validateForm"
    /\ Return(lung_validateForm(BinaryFormWith(call_args.field, call_args.raw), <<"1">>))

\* validateForm of the generic form, a gender being selected.
gen_CallValidateForm ==
    /\ call_args.fn = "generic.validateForm"
    /\ Return(gen_validateForm(BinaryFormWith(call_args.field, call_args.raw), <<"1">>))

\* validateField(field) of the cardiovascular form on a control named field
\* whose value is raw.
cardio_CallValidateField ==
    /\ call_args.fn = "cardio.validateField"
    /\ Return(cardio_validateField(call_args.field, call_args.raw))

\* validateForm of the cardiovascular form after fillDemoData, the control
\* named field holding raw.
cardio_CallValidateForm ==
    /\ call_args.fn = "cardio.validateForm"
    /\ Return(cardio_validateForm(
                [cardio_demoData EXCEPT ![call_args.field] = call_args.raw]))

UpperChar(c) ==
    CASE c = "a" -> "A" [] c = "e" -> "E" [] c = "g" -> "G" [] c = "h" -> "H"
      [] c = "i" -> "I" [] c = "k" -> "K" [] c = "l" -> "L" [] c = "n" -> "N"
      [] c = "o" -> "O" [] c = "p" -> "P" [] c = "r" -> "R" [] c = "s" -> "S"
      [] c = "t" -> "T" [] c = "v" -> "V" [] c = "w" -> "W" [] OTHER -> c

\* The text s with the characters at the positions in U in upper case.
Cased(s, U) == [i \in 1..Len(s) |-> IF i \in U THEN UpperChar(s[i]) ELSE s[i]]

\* Prediction texts of both tiers, in every letter case.
PredictionTexts ==
    {Cased(s, U) : s \in {<<"h", "i", "g", "h", " ", "r", "i", "s", "k">>, <<"p", "o", "s", "i", "t", "i", "v", "e">>, <<"l", "o", "w", " ", "r", "i", "s", "k">>, <<"n", "e", "g", "a", "t", "i", "v", "e">>},
                   U \in SUBSET (1..9)}

\* A successful response that carries the prediction text p.
ResultWith(p) == [prediction |-> p, prob |-> <<12, 88>>, score |-> <<>>]

\* The four result renderers on a result whose prediction is the text given.
CallShowResult ==
    /\ call_args.fn = "showResult"
    /\ Return(showResult(ResultWith(call_args.prediction)))

CallShowLungCancerResult ==
    /\ call_args.fn = "showLungCancerResult"
    /\ Return(showLungCancerResult(ResultWith(call_args.prediction)))

covid_CallDisplayResults ==
    /\ call_args.fn = "covid.displayResults"
    /\ Return(covid_displayResults(ResultWith(call_args.prediction)))

cardio_CallDisplayResults ==
    /\ call_args.fn = "cardio.displayResults"
    /\ Return(cardio_displayResults(ResultWith(call_args.prediction)))

\* The BMI block of the CV displayResults on inputData with the weight (kg) and
\* the height (cm) given.
cv_CallBmi ==
    /\ call_args.fn = "cv.displayResults.bmi"
    /\ LET bmi == cv_bmi(call_args.weight, call_args.height)
       IN  Return([category |-> getBMICategory(bmi), color |-> getBMIColor(bmi)])

\* generateRecommendations as displayResults calls it: with the BMI of the
\* submitted weight and height.
cv_CallGenerateRecommendations ==
    /\ call_args.fn = "generateRecommendations"
    /\ Return(generateRecommendations(
                [prediction |-> call_args.prediction], call_args.inputData,
                cv_bmi(call_args.inputData.weight, call_args.inputData.height)))

\* ============================================================ Specifications

FormsInit ==
    /\ covid_Init
    /\ lung_Init
    /\ gen_Init
    /\ cv_Init
    /\ eye_Init
    /\ heart_Init

PagesInit ==
    /\ FormsInit
    /\ dash_Idle
    /\ deb_Idle

Init ==
    /\ PagesInit
    /\ call_Init

\* One specification per page: a page runs its own script only.
SpecCovid == Init /\ [][covid_Next]_vars

SpecLung == Init /\ [][lung_Next]_vars

SpecGen == Init /\ [][gen_Next]_vars

SpecCv == Init /\ [][cv_Next]_vars

SpecEye == Init /\ [][eye_Next]_vars

SpecHeart == Init /\ [][heart_Next]_vars

DashInit ==
    /\ FormsInit
    /\ dash_Init
    /\ deb_Idle
    /\ call_Init

SpecDash == DashInit /\ [][dash_Next]_vars

DebounceInit ==
    /\ FormsInit
    /\ dash_Idle
    /\ deb_Init
    /\ call_Init

SpecDebounce == DebounceInit /\ [][deb_Next]_vars

\* The COVID page or the lung-cancer page: a visitor has one of them open, the
\* other stays as it loads.
FormsNext ==
    \/ (lung_Init /\ covid_Next)
    \/ (covid_Init /\ lung_Next)

SpecForms == Init /\ [][FormsNext]_vars

\* The three pages whose requests C23 follows; a visitor has one of them open.
RequestsNext ==
    \/ (lung_Init /\ eye_Init /\ covid_Next)
    \/ (covid_Init /\ eye_Init /\ lung_Next)
    \/ (covid_Init /\ lung_Init /\ eye_Next)

SpecRequests == Init /\ [][RequestsNext]_vars

\* One specification per function examined on its own: the arguments are
\* drawn in the initial state, the step is the call.
CovidValidateFieldInit ==
    /\ PagesInit
    /\ call_args \in [fn : {"covid.validateField"}, field : CovidFields, raw : RawStrings]
    /\ call_done = FALSE
    /\ call_ret = NoReturn

SpecCovidValidateField == CovidValidateFieldInit /\ [][covid_CallValidateField]_vars

BinaryFields == {binaryFields[i] : i \in 1..Len(binaryFields)}

BinaryInit ==
    /\ PagesInit
    /\ call_args \in [fn : {"validateBinaryInput", "lung.validateForm", "generic.validateForm"},
                      field : BinaryFields, raw : RawStrings]
    /\ call_done = FALSE
    /\ call_ret = NoReturn

BinaryNext ==
    \/ CallValidateBinaryInput
    \/ lung_CallValidateForm
    \/ gen_CallValidateForm

SpecBinary == BinaryInit /\ [][BinaryNext]_vars

CardioValidateInit ==
    /\ PagesInit
    /\ call_args \in [fn : {"cardio.validateField", "cardio.validateForm"},
                      field : CardioFields, raw : RawStrings]
    /\ call_done = FALSE
    /\ call_ret = NoReturn

CardioValidateNext ==
    \/ cardio_CallValidateField
    \/ cardio_CallValidateForm

SpecCardioValidate == CardioValidateInit /\ [][CardioValidateNext]_vars

Renderers ==
    {"showResult", "showLungCancerResult", "covid.displayResults",
     "cardio.displayResults"}

RenderInit ==
    /\ PagesInit
    /\ call_args \in [fn : Renderers, prediction : PredictionTexts]
    /\ call_done = FALSE
    /\ call_ret = NoReturn

RenderNext ==
    \/ CallShowResult
    \/ CallShowLungCancerResult
    \/ covid_CallDisplayResults
    \/ cardio_CallDisplayResults

SpecRender == RenderInit /\ [][RenderNext]_vars

\* Weights in kg and heights in cm of adults.
Weights == 40..110

Heights == {150, 160, 170, 175, 180, 200}

BmiInit ==
    /\ PagesInit
    /\ call_args \in [fn : {"cv.displayResults.bmi"}, weight : Weights, height : Heights]
    /\ call_done = FALSE
    /\ call_ret = NoReturn

SpecBmi == BmiInit /\ [][cv_CallBmi]_vars

\* The submitted data generateRecommendations is examined on: 175 cm at 70, 80
\* and 100 kg, and both sides of every threshold the function tests.
RecommendationInputs ==
    [weight : {70, 80, 100}, height : {175}, ap_hi : {120, 140}, ap_lo : {80, 90},
     cholesterol : {1, 2}, gluc : {1, 2}, smoke : {0, 1}, alco : {0, 1},
     active : {0, 1}, age : {50, 55, 65}, gender : {1, 2}]

RecommendationsInit ==
    /\ PagesInit
    /\ call_args \in [fn : {"generateRecommendations"},
                      prediction : {TxtPredHighRisk, TxtPredLowRisk},
                      inputData : RecommendationInputs]
    /\ call_done = FALSE
    /\ call_ret = NoReturn

SpecRecommendations == RecommendationsInit /\ [][cv_CallGenerateRecommendations]_vars

\* ==================================================================== Claims

\* The COVID form's notion of an acceptable field: non-empty, a number for
\* parseFloat, within [min, max] of validationRanges.
covid_acceptable(f, raw) ==
    /\ raw # EmptyStr
    /\ ~isNaN(parseFloat(raw))
    /\ parseFloat(raw).v >= validationRanges[f].min
    /\ parseFloat(raw).v <= validationRanges[f].max

covid_offending(value) == {f \in CovidFields : ~covid_acceptable(f, value[f])}

\* C1: in the COVID form at most one /covid/predict request is outstanding at
\* any time, under every interleaving of input events, submit events and
\* response arrival.
C1_AtMostOneOutstanding == covid_inFlight <= 1

C3_NoRequestWithInvalidField ==
    \A data \in BagToSet(cv_inFlight) : \A f \in CvFields : ~isNaN(data[f])

\* The generic form's accepted inputs as the claim states them: age a number in
\* 1..120, every binary field 0 or 1, a gender selected.
gen_ageInRange(raw) ==
    ~isNaN(parseInt(raw)) /\ parseInt(raw).v >= 1 /\ parseInt(raw).v <= 120

gen_binaryOk(raw) == ~isNaN(parseInt(raw)) /\ parseInt(raw).v \in {0, 1}

\* C4: in the generic prediction form a request is issued only if age is a
\* number in 1..120, each of the 13 binary fields is 0 or 1 and a gender is
\* selected; every age outside 1..120, 0 included, blocks the request.
C4_RequestOnlyIfAgeInRange ==
    [][(gen_inFlight' > gen_inFlight) =>
          /\ gen_ageInRange(gen_value["age"])
          /\ \A f \in GenInputs \ {"age"} : gen_binaryOk(gen_value[f])
          /\ gen_gender # EmptyStr]_vars

\* C5: in the eye-image detector at most one /eye/predict request is
\* outstanding at any time.
C5_AtMostOneAnalysis == Len(eye_inFlight) <= 1

\* C6: in the COVID form the submit control is disabled in every reachable
\* state in which some required field is empty or invalid.
C6_DisabledWhenNotSubmittable ==
    (\E f \in CovidFields : ~covid_filled(covid_value, covid_class, f))
        => covid_btnDisabled

\* C7: on the COVID and lung-cancer forms every request that resolves, with a
\* 2xx body, a non-2xx error body, an unparseable body or a transport failure,
\* is followed by a state in which the loading indicator is hidden and the
\* submit control is enabled.
C7_ResolvedRequestReenables ==
    [][/\ (covid_inFlight' < covid_inFlight) =>
              (covid_spinner' = "none" /\ ~covid_btnDisabled')
       /\ (lung_inFlight' < lung_inFlight) =>
              (lung_loading' = "none" /\ ~lung_btnDisabled')]_vars

\* A failed COVID request has been handled: the error is shown, the spinner is
\* hidden and the button is enabled.
C7_Witness ==
    /\ covid_error.shown
    /\ covid_error.kind = "network"
    /\ covid_inFlight = 0
    /\ covid_spinner = "none"
    /\ ~covid_btnDisabled

\* The sentences the lung-cancer and generic forms have for the error classes.
UserFacingSentences ==
    {MsgUnableToConnect, MsgInvalidResponse, MsgServiceUnavailable, MsgTryAgain,
     MsgUnableToProcess}

\* C8: for every network-stage failure of the lung-cancer form the text shown
\* is one of the fixed user-facing sentences, never the raw error or server
\* message.
C8_OnlyFixedSentences ==
    (lung_result.description.kind = "error")
        => (lung_result.description.text \in UserFacingSentences)

\* The age the lung-cancer form holds is a number outside 1..120.
lung_ageOutOfRange ==
    /\ ~isNaN(parseFloat(lung_value["age"]))
    /\ (parseFloat(lung_value["age"]).v < 100 \/ parseFloat(lung_value["age"]).v > 12000)

\* C9: in the lung-cancer form a submit with an age outside 1..120 issues no
\* request and raises a message naming "Age", whatever the other fields hold.
C9_AgeOutOfRangeRejected ==
    [][/\ (lung_inFlight' > lung_inFlight) => ~lung_ageOutOfRange
       /\ (lung_Submit /\ lung_ageOutOfRange) =>
             /\ lung_inFlight' = lung_inFlight
             /\ lung_alert'.open
             /\ lung_alert'.field = "Age"]_vars

\* A submit with age 150 has been rejected with the message naming Age.
C9_Witness ==
    /\ lung_value["age"] = <<"1", "5", "0">>
    /\ lung_alert.open
    /\ lung_alert.field = "Age"
    /\ lung_inFlight = 0

\* The fields validateForm of the lung-cancer form would reject, by the name
\* its message gives them.
lung_offending(value, gender) ==
    (IF validateNumericInput(value["age"], 1, 120, "Age") # <<>> THEN {"Age"} ELSE {})
    \cup {binaryFields[i] : i \in {j \in 1..Len(binaryFields) :
              validateBinaryInput(value[binaryFields[j]], binaryFields[j]) # <<>>}}
    \cup (IF gender = EmptyStr THEN {"gender"} ELSE {})

\* The first offending field in the order validateForm checks them: age, the
\* binary fields as declared, gender.
lung_firstOffending(value, gender) ==
    IF "Age" \in lung_offending(value, gender) THEN "Age"
    ELSE IF \E i \in 1..Len(binaryFields) : binaryFields[i] \in lung_offending(value, gender)
    THEN binaryFields[CHOOSE i \in 1..Len(binaryFields) :
            /\ binaryFields[i] \in lung_offending(value, gender)
            /\ \A j \in 1..(i - 1) : binaryFields[j] \notin lung_offending(value, gender)]
    ELSE "gender"

\* C10 as stated: when several fields are offending at submit time, the
\* rejection names every offending field.
C10_NamesEveryOffendingField ==
    lung_alert.open =>
        \A f \in lung_offending(lung_value, lung_gender) : lung_alert.field = f

\* C10, amended: a rejected submit raises one message, which names the first
\* offending field in the order age, binary fields as declared, gender.
C10_NamesFirstOffendingField ==
    lung_alert.open =>
        /\ lung_offending(lung_value, lung_gender) # {}
        /\ lung_alert.field = lung_firstOffending(lung_value, lung_gender)

\* A submit with two offending fields has been rejected.
C10_Witness ==
    /\ lung_alert.open
    /\ Cardinality(lung_offending(lung_value, lung_gender)) >= 2

\* ------------------------------------------------------------------- C11

\* The raw string is a number as a whole (a numeric literal), and its value.
isNumber(raw) == raw # EmptyStr /\ ~isNaN(ToNumber(raw))

\* C11: for every COVID field and every raw value, validateField returns false
\* with the class 'invalid' iff the value is not parseable as a number or is
\* below min or above max, gives 'abnormal' iff it is within [min, max] but
\* outside the normal range, 'valid' otherwise, and classifies the empty
\* string as empty (false, no class).
C11_ValidateFieldClassifies ==
    (call_done /\ call_args.fn = "covid.validateField") =>
        LET raw == call_args.raw
            r   == validationRanges[call_args.field]
            v   == ToNumber(raw).v
            inRange  == isNumber(raw) /\ v >= r.min /\ v <= r.max
            inNormal == ~r.hasNormal \/ (v >= r.normalMin /\ v <= r.normalMax)
        IN  call_ret =
                IF raw = EmptyStr THEN [ok |-> FALSE, cls |-> ""]
                ELSE IF ~inRange THEN [ok |-> FALSE, cls |-> "invalid"]
                ELSE IF ~inNormal THEN [ok |-> TRUE, cls |-> "abnormal"]
                ELSE [ok |-> TRUE, cls |-> "valid"]

\* ------------------------------------------------------------------- C12

\* C12: for a binary field, validateBinaryInput and the submit-time validation
\* of the lung-cancer and generic forms accept the raw strings "0" and "1" and
\* reject every other string.
C12_OnlyZeroAndOneAccepted ==
    (call_done /\ call_args.fn \in {"validateBinaryInput", "lung.validateForm",
                                    "generic.validateForm"}) =>
        ((call_ret = <<>>) <=> (call_args.raw \in {<<"0">>, <<"1">>}))

\* ------------------------------------------------------------------- C13

\* C13: in the cardiovascular form validateField classifies a select field as
\* valid only if its value is one of the option codes declared for it in
\* formFields; the empty value is empty, any other value is invalid, and
\* validateForm rejects the form.
C13_SelectMustBeDeclaredOption ==
    (call_done /\ formFields[call_args.field].type = "select") =>
        LET raw      == call_args.raw
            declared == raw \in formFields[call_args.field].options
        IN  /\ call_args.fn = "cardio.validateField" =>
                call_ret = IF raw = EmptyStr THEN [ok |-> FALSE, cls |-> ""]
                           ELSE IF declared THEN [ok |-> TRUE, cls |-> "valid"]
                           ELSE [ok |-> FALSE, cls |-> "invalid"]
            /\ call_args.fn = "cardio.validateForm" =>
                (call_ret.isValid <=> declared)

\* ------------------------------------------------------------------- C14

\* The container classes of the high-risk rendering.
HighTierClasses == {"result-positive", "covid-positive", "high-risk"}

\* C14: every result renderer (showResult, showLungCancerResult, the COVID
\* displayResults, the cardiovascular displayResults) renders a prediction as
\* high-risk iff it contains "high risk" or "positive" in any letter case, and
\* as low-risk otherwise.
C14_TierIsCaseInsensitive ==
    (call_done /\ call_args.fn \in Renderers) =>
        LET p == toLowerCase(call_args.prediction)
        IN  (call_ret.cls \in HighTierClasses)
                <=> (Includes(p, <<"h", "i", "g", "h", " ", "r", "i", "s", "k">>) \/ Includes(p, <<"p", "o", "s", "i", "t", "i", "v", "e">>))

\* ------------------------------------------------------------------- C15

\* The tier a prediction text belongs to, whatever its letter case.
textIsHighRisk(p) ==
    \/ Includes(toLowerCase(p), <<"h", "i", "g", "h", " ", "r", "i", "s", "k">>)
    \/ Includes(toLowerCase(p), <<"p", "o", "s", "i", "t", "i", "v", "e">>)

\* res is the rendering of a successful response: its text, the percentages
\* embedded in the description, and the class, description variant and single
\* indicator of the tier of that response.
lung_rendersResponse(res) ==
    \E r \in LungResponses :
        /\ r.kind = "ok"
        /\ res.text = r.prediction
        /\ res.description.prob = r.prob
        /\ res.cls = IF textIsHighRisk(r.prediction)
                     THEN "result-positive" ELSE "result-negative"
        /\ res.description.kind = IF textIsHighRisk(r.prediction) THEN "high" ELSE "low"
        /\ res.indicators = <<IF textIsHighRisk(r.prediction)
                              THEN "risk-high" ELSE "risk-low">>

\* C15 as stated: once a result or an error has been rendered, the result text
\* holds exactly one risk indicator, of the tier of the last rendered result.
C15_ExactlyOneIndicatorAlways ==
    lung_result.description.kind # "" =>
        /\ Len(lung_result.indicators) = 1
        /\ lung_result.indicators[1] \in {"risk-high", "risk-low"}

\* C15: a low-risk response with both percentages is rendered as the low-risk
\* variant, with both percentages in the description and the green indicator;
\* after any sequence of results and errors the result text holds exactly one
\* indicator, of the tier of the last render, when that render was a result,
\* and no indicator when it was an error or nothing was rendered yet.
C15_OneIndicatorOfLastResult ==
    IF lung_result.description.kind \in {"high", "low"}
    THEN lung_rendersResponse(lung_result)
    ELSE lung_result.indicators = <<>>

C15_Witness ==
    /\ lung_result.display = "block"
    /\ lung_result.description.kind = "low"
    /\ lung_result.description.prob = <<12, 88>>
    /\ lung_result.indicators = <<"risk-low">>
    /\ lung_result.cls = "result-negative"

\* ------------------------------------------------------------------- C16

\* The bucket of the exact quotient weight / (height / 100)^2: the limits 18.5,
\* 25 and 30 compared after multiplying out the denominators.
bmiBucket(weight, height) ==
    IF 20000 * weight < 37 * height * height THEN "Underweight"
    ELSE IF 10000 * weight < 25 * height * height THEN "Normal weight"
    ELSE IF 10000 * weight < 30 * height * height THEN "Overweight"
    ELSE "Obese"

bucketColor(bucket) ==
    CASE bucket = "Underweight" -> "#3498db"
      [] bucket = "Normal weight" -> "#27ae60"
      [] bucket = "Overweight" -> "#f39c12"
      [] bucket = "Obese" -> "#e74c3c"

\* C16: for positive integer weight (kg) and height (cm), the CV displayResults
\* shows the category Underweight iff BMI < 18.5, Normal weight iff
\* 18.5 <= BMI < 25, Overweight iff 25 <= BMI < 30 and Obese iff BMI >= 30,
\* BMI being weight / (height/100)^2, and getBMIColor gives the colour of the
\* same bucket.
C16_BmiBucket ==
    (call_done /\ call_args.fn = "cv.displayResults.bmi") =>
        /\ call_ret.category = bmiBucket(call_args.weight, call_args.height)
        /\ call_ret.color = bucketColor(call_ret.category)

\* ------------------------------------------------------------------- C17

\* C17: in the eye detector the stored last result is held only until it is
\* superseded or the form is reset: after startNewAnalysis or removeImage no
\* earlier result is held (so that downloadResults has nothing to export until
\* a new analysis succeeds).
C17_ResetDropsLastResult ==
    [][(eye_startNewAnalysis \/ eye_RemoveClick) => eye_currentResults' = NoResults]_vars

\* ------------------------------------------------------------------- C18

\* C18: the report of downloadResults pairs the last successful result with
\* the input that produced it: whenever a result can be downloaded, the
\* 'Image:' line of the report names the file whose analysis returned it.
C18_ReportNamesAnalyzedFile ==
    (eye_resultsCard.display = "block" /\ eye_currentResults.kind = "ok") =>
        eye_generateReport.image = eye_currentResults.file

\* ------------------------------------------------------------------- C19

\* The files the page is meant to take: one of the five image types, at most
\* 10 MB.
eye_acceptable(file) ==
    /\ file.type \in {"image/jpeg", "image/jpg", "image/png", "image/gif", "image/bmp"}
    /\ file.size <= 10 * 1024 * 1024

\* C19: processFile accepts a file iff its MIME type is one of image/jpeg,
\* image/jpg, image/png, image/gif, image/bmp and its size is at most
\* 10*1024*1024 bytes; an accepted file becomes currentFile, and a rejected
\* file shows an error and leaves currentFile and the disabled state of the
\* analyze button unchanged.
C19_ProcessFileAcceptsValidImages ==
    [][\A file \in EyeFiles :
          eye_processFileOn(file) =>
              IF eye_acceptable(file)
              THEN /\ eye_currentFile' = file
                   /\ eye_errorCard'.display = "none"
              ELSE /\ eye_errorCard'.display = "block"
                   /\ eye_currentFile' = eye_currentFile
                   /\ eye_analyzeDisabled' = eye_analyzeDisabled]_vars

\* A file was rejected for its size while another file is held and the
\* analyze button is enabled.
C19_Witness ==
    /\ eye_errorCard = [display |-> "block", message |-> "File size must be less than 10MB"]
    /\ eye_currentFile \in EyeFiles
    /\ ~eye_analyzeDisabled

\* ------------------------------------------------------------------- C20

\* The entries of list are those of entries, each as often.
isPermutation(list, entries) ==
    /\ Len(list) = Len(entries)
    /\ \A e \in {entries[i] : i \in 1..Len(entries)} :
           Cardinality({i \in 1..Len(list) : list[i] = e})
             = Cardinality({i \in 1..Len(entries) : entries[i] = e})

nonIncreasing(list) == \A i \in 1..(Len(list) - 1) : list[i].p >= list[i + 1].p

\* The tier the page's text gives a class label.
tierOfLabel(label) ==
    CASE toLowerCase(label) = <<"n", "o", "r", "m", "a", "l">> -> "success"
      [] toLowerCase(label) = <<"o", "t", "h", "e", "r">>  -> "warning"
      [] OTHER                           -> "danger"

\* The label of an entry as a string of characters.
labelChars(cls) ==
    CASE cls = "Normal"   -> <<"N", "o", "r", "m", "a", "l">>
      [] cls = "Cataract" -> <<"C", "a", "t", "a", "r", "a", "c", "t">>
      [] cls = "Glaucoma" -> <<"G", "l", "a", "u", "c", "o", "m", "a">>
      [] cls = "Other"    -> <<"O", "t", "h", "e", "r">>

\* The displayed list is the response's distribution in non-increasing order.
listIsSortedDistribution ==
    /\ isPermutation(eye_resultsCard.list, eye_currentResults.dist)
    /\ nonIncreasing(eye_resultsCard.list)

\* C20 as stated: the displayed distribution is a permutation of the
\* response's entries in non-increasing order of percentage, and the icon
\* tier is the tier of the top label of that distribution.
C20_IconOfTopLabel ==
    eye_resultsCard.display = "block" =>
        /\ listIsSortedDistribution
        /\ eye_resultsCard.list # <<>>
        /\ eye_resultsCard.icon = tierOfLabel(labelChars(eye_resultsCard.list[1].cls))

\* C20 as the code has it: the displayed distribution is a permutation of the
\* response's entries in non-increasing order of percentage, and the icon
\* tier is the tier of the response's detected_class, whatever the
\* distribution says: success for 'normal', warning for 'other', danger for
\* any other label, compared case-insensitively.
C20_IconOfDetectedClass ==
    eye_resultsCard.display = "block" =>
        /\ listIsSortedDistribution
        /\ eye_resultsCard.icon = tierOfLabel(eye_currentResults.detected_class)

\* A response whose three entries came out of order and whose detected_class
\* is 'NORMAL' is on display.
C20_Witness ==
    /\ eye_resultsCard.display = "block"
    /\ eye_currentResults.detected_class = <<"N", "O", "R", "M", "A", "L">>
    /\ eye_currentResults.dist # eye_resultsCard.list
    /\ Len(eye_resultsCard.list) = 3
    /\ eye_resultsCard.icon = "success"

\* ------------------------------------------------------------------- C21

\* The input holds a number in the blocking tier of its field.
heart_holdsBlocking(fieldName, raw) ==
    LET n == ToNumber(raw)
    IN  /\ raw # EmptyStr
        /\ ~isNaN(n)
        /\ CASE fieldName = "age"            -> n.v < 20 * 100 \/ n.v > 100 * 100
             [] fieldName = "resting_bp"     -> n.v >= 250 * 100 \/ n.v < 60 * 100
             [] fieldName = "cholesterol"    -> n.v >= 500 * 100 \/ n.v < 50 * 100
             [] fieldName = "max_heart_rate" -> n.v >= 250 * 100 \/ n.v < 40 * 100
             [] fieldName = "oldpeak"        -> n.v >= 10 * 100

\* C21: in the form with the blocking tier, a submit while some numeric field
\* holds a blocking value (age < 20 or > 100, resting_bp >= 250 or < 60,
\* cholesterol >= 500 or < 50, max_heart_rate >= 250 or < 40, oldpeak >= 10)
\* has validateForm return false and does not invoke submitPrediction,
\* whatever the other fields hold.  (A submit leaves the values alone; saying
\* so first spares the evaluation of the handler on every other step.)
C21_BlockingValueStopsSubmit ==
    [][(/\ heart_value' = heart_value
        /\ \E f \in HeartInputs : heart_holdsBlocking(f, heart_value[f])
        /\ heart_Submit)
         => /\ ~heart_validateForm(heart_value, heart_class).ok
            /\ heart_pending' = heart_pending
            /\ heart_spinner' = heart_spinner
            /\ heart_error' # ""]_vars

\* A submit was refused for oldpeak = 10 alone: every other field is filled
\* with a value in its range.
C21_Witness ==
    /\ heart_error = "correct the highlighted values"
    /\ heart_value = [heart_demoData EXCEPT !.oldpeak = <<"1", "0">>]
    /\ heart_radio # EmptyStr
    /\ heart_class.oldpeak = {"blocking-invalid"}
    /\ heart_pending = 0

\* ------------------------------------------------------------------- C22

\* The raw value is a number within the [min, max] of the field.
covid_withinRange(f, raw) ==
    LET n == ToNumber(raw)
    IN  /\ raw # EmptyStr
        /\ ~isNaN(n)
        /\ validationRanges[f].min <= n.v
        /\ n.v <= validationRanges[f].max

\* The step changes the value of field f and of no other field.
covid_changesOnly(f) ==
    /\ covid_value'[f] # covid_value[f]
    /\ \A g \in CovidFields \ {f} : covid_value'[g] = covid_value[g]

\* C22: in the COVID form the progress percent always lies in 0..100, and a
\* step that takes exactly one of the 21 required fields from empty or invalid
\* to a value within its [min, max], the other fields unchanged, never
\* decreases the progress percent.
C22_ProgressBoundedAndMonotone ==
    /\ [](covid_progress \in 0..(100 * 100))
    /\ [][\A f \in CovidFields :
             (/\ covid_changesOnly(f)
              /\ covid_value[f] = EmptyStr \/ covid_class[f] = "invalid"
              /\ covid_withinRange(f, covid_value'[f]))
               => covid_progress' >= covid_progress]_vars

\* leukocytes went from out of range to 8.2 while age holds a letter: one field
\* of 21 counts.
C22_Witness ==
    /\ Len(covid_requiredFields) = 21
    /\ covid_value["leukocytes"] = <<"8", ".", "2">>
    /\ covid_class["age"] = "invalid"
    /\ covid_progress = (1 * 10000) \div 21
    /\ \A f \in CovidFields \ {"age", "leukocytes"} : covid_value[f] = EmptyStr

\* ------------------------------------------------------------------- C23

\* C23: no form retries automatically.  A step issues at most one prediction
\* request, and only a user-triggered submit, analyze or retry issues one, so
\* the requests issued never outnumber those actions; and a step that handles
\* a response, failed or not, issues none: it leaves one request fewer
\* outstanding.
C23_NoAutomaticRetry ==
    [][/\ (covid_inFlight' > covid_inFlight) =>
              (covid_inFlight' = covid_inFlight + 1 /\ covid_Submit)
       /\ (lung_inFlight' > lung_inFlight) =>
              (lung_inFlight' = lung_inFlight + 1 /\ lung_Submit)
       /\ (Len(eye_inFlight') > Len(eye_inFlight)) =>
              /\ Len(eye_inFlight') = Len(eye_inFlight) + 1
              /\ eye_AnalyzeClick \/ eye_retryAnalysis
       /\ (covid_inFlight' >= covid_inFlight) => ~covid_Response
       /\ (lung_inFlight' >= lung_inFlight) => ~lung_Response
       /\ (Len(eye_inFlight') >= Len(eye_inFlight)) => ~eye_Response]_vars

\* The eye detector has handled a non-2xx answer without an error string: the
\* error card offers the retry button, the image is still held and no request
\* is outstanding.
C23_Witness ==
    /\ eye_errorCard = [display |-> "block", message |-> "Analysis failed. Please try again."]
    /\ eye_currentFile # NoFile
    /\ eye_inFlight = <<>>
    /\ ~eye_analyzeDisabled

\* ------------------------------------------------------------------- C24

\* The details rows on display.
dash_displayed == {id \in PredictionIds : dash_display[id] = "table-row"}

\* C24: the details rows are an accordion: after any sequence of
\* toggleDetails(id) calls, id 0 included, at most one details row is
\* displayed, and currentOpenDetails is the id of the displayed row, or null
\* when none is displayed.
C24_AtMostOneRowOpen ==
    /\ Cardinality(dash_displayed) <= 1
    /\ dash_displayed = {} => currentOpenDetails = Null
    /\ \A id \in dash_displayed : currentOpenDetails = <<id>>

\* ------------------------------------------------------------------- C25

\* C25: each call of the debounced function cancels the pending invocation
\* and schedules a new one.  So func is only ever invoked right after the
\* last call of a burst, with the arguments of that call and not before wait
\* has elapsed since it; a call that follows another within less than wait has
\* no invocation in between; and once no timer is pending every burst has had
\* its one invocation.
C25_DebounceServesLastCall ==
    /\ \A k \in 1..Len(deb_log) :
           deb_log[k].op = "func" =>
               /\ k > 1
               /\ deb_log[k - 1].op = "call"
               /\ deb_log[k].args = deb_log[k - 1].args
               /\ deb_log[k].at >= deb_log[k - 1].at + deb_wait
    /\ Cardinality(deb_timers) <= 1
    /\ deb_timers = {} =>
           (deb_log = <<>> \/ deb_log[Len(deb_log)].op = "func")
    /\ \A t \in deb_timers :
           /\ deb_log[Len(deb_log)].op = "call"
           /\ t.args = deb_log[Len(deb_log)].args
           /\ t.due = deb_log[Len(deb_log)].at + deb_wait

\* A burst of two calls with different arguments, less than wait apart, has
\* been served: func ran once, with the arguments of the second call.
C25_Witness ==
    /\ Len(deb_log) = 3
    /\ deb_log[1].op = "call" /\ deb_log[2].op = "call" /\ deb_log[3].op = "func"
    /\ deb_log[1].args # deb_log[2].args
    /\ deb_log[2].at > deb_log[1].at
    /\ deb_log[2].at - deb_log[1].at < deb_wait
    /\ deb_log[3].args = deb_log[2].args
    /\ deb_timers = {}

\* ------------------------------------------------------------------- C26

\* C26: in the eye detector the error card and the results card are never
\* displayed at the same time, in any state reachable by file selection or
\* drop, removeImage, analyze, retry, download or response arrival.
C26_ErrorAndResultsExclusive ==
    ~(eye_errorCard.display = "block" /\ eye_resultsCard.display = "block")

\* ------------------------------------------------------------------- C27

\* C27: in the eye detector the analyze button is enabled only while an image
\* is held: analyzeBtn enabled implies currentFile is not null, also in the
\* states reached when a response arrives after removeImage.
C27_EnabledOnlyWithFile ==
    ~eye_analyzeDisabled => eye_currentFile # NoFile

\* ------------------------------------------------------------------- C28

\* C28: in the eye detector, whenever the image preview is displayed,
\* currentFile is not null and the preview (image, name, size) is that of
\* currentFile, also when a FileReader load completes after removeImage or
\* after another file has been selected.
C28_PreviewShowsCurrentFile ==
    eye_preview.display = "block" =>
        /\ eye_currentFile # NoFile
        /\ eye_preview.name = eye_currentFile.name

\* ------------------------------------------------------------------- C29

\* C29: in the lung-cancer form showLoading followed by hideLoading restores
\* the submit button: once every outstanding request has been handled, the
\* text of the button is the label it had before the first submission, after
\* any sequence of submissions, field edits and responses.
C29_LabelRestored ==
    lung_inFlight = 0 => lung_btnText = lung_InitialLabel

\* ------------------------------------------------------------------- C30

\* The recommendations the input conditions call for, whatever their order.
triggeredRecommendations(prediction, d) ==
    LET bucket == bmiBucket(d.weight, d.height)
    IN  (IF textIsHighRisk(prediction)
         THEN {"Consult with a cardiologist for comprehensive evaluation",
               "Consider cardiac screening tests (ECG, echocardiogram, stress test)"}
         ELSE {})
        \cup (IF bucket = "Obese"
              THEN {"Work with a nutritionist to develop a weight management plan",
                    "Start with low-impact exercises like walking or swimming"}
              ELSE {})
        \cup (IF bucket = "Overweight"
              THEN {"Maintain a balanced diet with portion control",
                    "Incorporate regular physical activity (150 minutes/week)"}
              ELSE {})
        \cup (IF d.ap_hi >= 140 \/ d.ap_lo >= 90
              THEN {"Monitor blood pressure regularly",
                    "Reduce sodium intake and follow DASH diet principles",
                    "Consider medication compliance if prescribed by doctor"}
              ELSE {})
        \cup (IF d.cholesterol >= 2
              THEN {"Follow a heart-healthy diet low in saturated fats",
                    "Consider cholesterol-lowering medications if recommended"}
              ELSE {})
        \cup (IF d.gluc >= 2
              THEN {"Monitor blood glucose levels regularly",
                    "Follow diabetic diet guidelines if applicable",
                    "Maintain stable blood sugar through diet and exercise"}
              ELSE {})
        \cup (IF d.smoke = 1
              THEN {"URGENT: Quit smoking - seek professional help if needed",
                    "Consider nicotine replacement therapy or cessation programs"}
              ELSE {})
        \cup (IF d.alco = 1
              THEN {"Limit alcohol consumption to moderate levels",
                    "Avoid binge drinking and consider alcohol-free days"}
              ELSE {})
        \cup (IF d.active = 0
              THEN {"Start with light physical activities like walking",
                    "Gradually increase exercise intensity and duration",
                    "Aim for at least 150 minutes of moderate exercise weekly"}
              ELSE {})
        \cup (IF d.age >= 65
              THEN {"Schedule regular cardiac check-ups (every 6 months)",
                    "Monitor for signs of heart disease more closely"}
              ELSE {})
        \cup (IF d.gender = 1 /\ d.age >= 55
              THEN {"Discuss hormone replacement therapy risks/benefits with doctor",
                    "Increase calcium and vitamin D intake for bone health"}
              ELSE {})

\* C30: generateRecommendations returns at most 8 and at least 3
\* recommendations for every input, and every recommendation triggered by an
\* input condition is in the returned list; in particular, for every input
\* with smoke = 1 the list contains 'URGENT: Quit smoking - seek professional
\* help if needed'.
C30_TriggeredRecommendationsReturned ==
    (call_done /\ call_args.fn = "generateRecommendations") =>
        LET returned == {call_ret[i] : i \in 1..Len(call_ret)}
        IN  /\ Len(call_ret) >= 3
            /\ Len(call_ret) <= 8
            /\ triggeredRecommendations(call_args.prediction, call_args.inputData)
                 \subseteq returned
            /\ call_args.inputData.smoke = 1 =>
                 "URGENT: Quit smoking - seek professional help if needed" \in returned

====
